---------------------------- MODULE Spec2Model ----------------------------
(***************************************************************************)
(* MCP Integration Service: the integrations and tools routers, the        *)
(* integration service, the OAuth-session helpers and the platform         *)
(* wrapper, as a state machine.                                            *)
(*                                                                         *)
(* Every request handler is a sequence of atomic steps.  The service is a  *)
(* single asyncio process, so a handler runs without interruption between  *)
(* two awaits; every await of a document-store operation is a point where  *)
(* another handler may run.  The platform wrapper is synchronous: its      *)
(* calls never yield.  Each step below therefore ends at a document-store  *)
(* await (or at the handler's return).                                     *)
(***************************************************************************)
EXTENDS Integers, Sequences, FiniteSets, TLC

(***************************************************************************)
(* Bounds of the model.                                                    *)
(***************************************************************************)
MaxSessions == 2     \* OAuth sessions ever created (uuid4 values are never reused)
MaxTicks == 2        \* clock ticks of TickMinutes each

(***************************************************************************)
(* Program constants.                                                      *)
(***************************************************************************)
MaxAgeMinutes == 30  \* cleanup_old_oauth_sessions(max_age_minutes=30)
RedirectStatus == 307 \* starlette RedirectResponse default status code

\* Granularity of the modelled clock: one tick is the cleanup's age limit.
TickMinutes == MaxAgeMinutes

\* The request handlers that may be in flight together.
Slots == {"s1", "s2"}
Users == {"u1", "u2"}

\* Python None for string-valued optionals, and absent documents / urls.
None == "<None>"
NoDoc == [absent |-> TRUE]
NoUrl == [absent |-> TRUE]
NoResp == [absent |-> TRUE]

(***************************************************************************)
(* Strings.  str.lower() as a table over the strings of the model.         *)
(***************************************************************************)
LowerTable == [GMAIL |-> "gmail", Gmail |-> "gmail", SLACK |-> "slack",
               NOTION |-> "notion"]

Lower(s) == IF s \in DOMAIN LowerTable THEN LowerTable[s] ELSE s

\* Python truthiness of an Optional[str]: None and "" are falsy.
Truthy(s) == s # None /\ s # ""

\* ENABLED_TOOLS: provider -> auth config id (tools_config.py).
ENABLED_TOOLS == [gmail |-> "ac_zU1jBJBYALeb", slack |-> "ac_7v6eenDvYNbn",
   whatsapp |-> "ac_CJJNCRZry5Uw", googledocs |-> "ac_q5dI1_V9PxNB",
   googlesheets |-> "ac_QQmKApYUmXW_", googledrive |-> "ac_2tyw32nZjQSC",
   googlebigquery |-> "ac_MF8iPzJMYdQA", googlemeet |-> "ac_nAHXEVU0UxX5",
   googleads |-> "ac_doMQXNfhhEkb", googlemaps |-> "ac_F-KJ911-9Qy_",
   zoom |-> "ac_2ygwF8hzKmyJ", youtube |-> "ac_beaAbFcGVrX5",
   supabase |-> "ac_JFhWNcKJRdCO", linkedin |-> "ac_STVPw9h3slyp",
   facebook |-> "ac_Q_6H1WLdn4qO", stripe |-> "ac_EZVgKSjbaxHF"]

\* SUPPORTED_INTEGRATIONS = list(get_enabled_tools().keys())
SUPPORTED_INTEGRATIONS == DOMAIN ENABLED_TOOLS

\* AUTH_CONFIG_MAP of the platform wrapper.
AUTH_CONFIG_MAP == [gmail |-> "ac_24DkR_l4gcsg", slack |-> "ac_EEgx5VnWdJz_"]

\* entity_id = f"user_{user_id}"
EntityId(u) == <<"user_", u>>

(***************************************************************************)
(* URLs: whether the text starts with http:// or https://, the rest of the *)
(* text before the query, and the query as a set of <<name, value>> pairs. *)
(***************************************************************************)
Url(scheme, rest, query) == [scheme |-> scheme, rest |-> rest, query |-> query]

\* OAUTH_REDIRECT_BASE default "http://localhost:8001"
OAUTH_REDIRECT_BASE == Url("http", "localhost:8001", {})

\* redirect URLs callers supply: one with a scheme, one without a scheme and
\* with a query parameter of its own
RedirectUrls == {Url("https", "app.example/done", {}),
                 Url("", "other.example/cb", {<<"status", "mine">>})}

\* final_redirect = f"https://{final_redirect}" unless it starts with a scheme
EnsureScheme(u) == IF u.scheme \in {"http", "https"} THEN u
                   ELSE [u EXCEPT !.scheme = "https"]

\* An append_params whose existing parameters win over the new ones.
AppendParamsExistingWin(u, params) ==
  LET names == {kv[1] : kv \in u.query}
  IN [u EXCEPT !.query = u.query \cup {kv \in params : kv[1] \notin names}]

\* append_params: existing_params.update(params); urlencode
AppendParams(u, params) ==
  LET names == {kv[1] : kv \in params}
  IN [u EXCEPT !.query = {kv \in u.query : kv[1] \notin names} \cup params]


(***************************************************************************)
(* State.                                                                  *)
(***************************************************************************)
VARIABLES
  config,          \* AGENT_API_KEY and COMPOSIO_API_KEY as read at import
  integrations,    \* the integrations collection: a set of documents
  oauth_sessions,  \* the oauth_sessions collection
  platform,        \* the connected accounts the platform holds
  now,             \* datetime.utcnow(), in minutes
  nextSession,     \* the next uuid4 value
  req,             \* per slot: the handler in flight and its locals
  last,            \* the request the last step answered (Idle if none):
                   \* its locals and its response
  log,             \* history, per session id: what was stored, the lookups made
  token_files,     \* the Local Sync Helper's tokens directory: per file, its content
  token_log,       \* history, per email: the tokens last saved and not deleted since
  expired_tokens,  \* the access tokens whose lifetime at the issuer is over
  tools,           \* the tools collection of the document store
  mongo,           \* db/mongodb.py: the module's globals and the calls in flight
  ret              \* what the helper operation of the last step returned or raised

service_vars == <<config, integrations, oauth_sessions, platform, now,
                  nextSession, req, last, log>>

helper_vars == <<token_files, token_log, expired_tokens, tools, mongo, ret>>

vars == <<service_vars, helper_vars>>

Statuses == {"pending", "active", "expired", "revoked", "error"}

\* An integration document.
Doc(id, user, provider, conn, status, email) ==
  [id |-> id, user_id |-> user, provider |-> provider,
   composio_entity_id |-> EntityId(user), composio_connection_id |-> conn,
   status |-> status, connected_email |-> email]

\* The connected accounts the platform may hold.  k1 names its app by
\* toolkit.slug, k2 only by its auth config id, k3 only by appName.
PlatformAccounts ==
  {[id |-> "c1", user |-> EntityId("u1"), slug |-> "gmail", app_name |-> None,
    auth_config_id |-> None, integration_id_has |-> {}],
   [id |-> "c2", user |-> EntityId("u1"), slug |-> None, app_name |-> None,
    auth_config_id |-> AUTH_CONFIG_MAP["gmail"], integration_id_has |-> {}],
   [id |-> "c3", user |-> EntityId("u2"), slug |-> None, app_name |-> "SLACK",
    auth_config_id |-> None, integration_id_has |-> {}]}

ConnectionIds == {k.id : k \in PlatformAccounts}

\* A store without the unique index.
WithoutUniqueIndex == FALSE

\* user_provider_unique: the unique index on (user_id, provider) that
\* create_indexes builds at startup.
UniqueIndex == TRUE

Pair(d) == <<d.user_id, d.provider>>

UniquePairs(coll) == \A d, e \in coll : Pair(d) = Pair(e) => d = e

\* The store outlives the process: the service starts on whatever documents
\* the collection holds (create_indexes fails, and with it startup, on a
\* collection that breaks the unique index).
InitialDocs ==
  {Doc(1, "u1", "gmail", "c1", "pending", None),
   Doc(1, "u1", "gmail", "c1", "active", "u1@mail"),
   Doc(2, "u2", "gmail", "c9", "active", None)}

InitialCollections == {c \in SUBSET InitialDocs : UniquePairs(c)}

\* History of a session id: the redirect_url store_oauth_session stored
\* under it, whether get_oauth_session has returned from a call with it
\* since (calls, 0 or 1), how many calls returned the session (hits, counted
\* up to 2), and whether cleanup_old_oauth_sessions deleted it (expired).
NoLog == [stored |-> NoUrl, calls |-> 0, hits |-> 0, expired |-> FALSE]

Idle == [op |-> "idle", pc |-> "idle", a |-> NoDoc, existing |-> NoDoc,
         sid |-> 0, session |-> NoDoc, connection |-> NoDoc, ran |-> FALSE,
         first |-> FALSE, final |-> NoUrl, handed |-> NoUrl, deleted |-> -1,
         read |-> FALSE, wrote |-> FALSE, plat |-> FALSE, executed |-> FALSE,
         resp |-> NoResp]

Configs == [agent_key : {"", "secret"}, composio_key : {"", "ck"}]

(***************************************************************************)
(* The Local Sync Helper's token store (src/token_manager.py): one file    *)
(* per email under TOKENS_DIR.  The names are compared as the file system  *)
(* of the deployment compares them, byte for byte.                         *)
(***************************************************************************)
Emails == {"ann@x.com", "Ann@x.com", "bob@x.com"}

TOKENS_DIR == "tokens"

\* A store that keeps one file for every account.
one_token_file(email) == [parent |-> TOKENS_DIR, name |-> "tokens.json"]

\* TOKENS_DIR / f"{email}.json"
get_token_file(email) == [parent |-> TOKENS_DIR, name |-> email \o ".json"]

TokenPaths == {get_token_file(email) : email \in Emails}

\* token_file.exists() is false.
NoFile == [missing |-> TRUE]

\* No helper operation has run in the last step.
NoRet == [op |-> "none"]

\* The callers of the document-store access layer that may be in flight.
Callers == {"c1", "c2", "c3"}

\* _client = None, _database = None, nothing in flight.
MongoInit ==
  [client |-> NoDoc, database |-> NoDoc, created |-> 0, closed |-> FALSE,
   pc |-> [c \in Callers |-> "idle"]]

HelperInit ==
  /\ token_files = [p \in TokenPaths |-> NoFile]
  /\ token_log = [email \in Emails |-> NoDoc]
  /\ expired_tokens = {}
  /\ tools = {}
  /\ mongo = MongoInit
  /\ ret = NoRet

Init ==
  /\ config \in Configs
  /\ integrations \in InitialCollections
  /\ oauth_sessions = {}
  /\ platform \in SUBSET PlatformAccounts
  /\ now = 0
  /\ nextSession = 1
  /\ req = [r \in Slots |-> Idle]
  /\ last = Idle
  /\ log = [s \in 1..MaxSessions |-> NoLog]
  /\ HelperInit

\* A slot that can take a new request.
Free(r) == req[r].pc = "idle"

\* A handler's step: new is the handler's record after it.  A handler that
\* has answered leaves its slot, and last shows its record for one step.
Step(r, new) ==
  /\ req' = [req EXCEPT ![r] = IF new.pc = "done" THEN Idle ELSE new]
  /\ last' = IF new.pc = "done" THEN new ELSE Idle

\* An _id no document carries and no handler in flight still refers to
\* (ObjectIds are never reused).
FreshId ==
  LET used == {d.id : d \in integrations}
              \cup {req[r].existing.id : r \in {s \in Slots : req[s].existing # NoDoc}}
  IN CHOOSE i \in 1..(Cardinality(used) + 1) : i \notin used

(***************************************************************************)
(* HTTP responses.                                                         *)
(***************************************************************************)
Resp(status, detail) ==
  [status |-> status, detail |-> detail, location |-> NoUrl,
   success |-> None, error |-> None]

Redirect(u) == [Resp(RedirectStatus, "redirect") EXCEPT !.location = u]

Finish(rec, resp) == [rec EXCEPT !.pc = "done", !.resp = resp]

\* A dependency that lets every request through.
verify_nothing(key) == NoResp

(***************************************************************************)
(* verify_api_key, together with FastAPI's handling of the required        *)
(* X-API-Key header and of the request body: "ok", or the status that      *)
(* answers the request before the handler body runs.  key is None when the *)
(* header is missing.                                                      *)
(***************************************************************************)
verify_api_key(key) ==
  IF key = None THEN Resp(422, "missing header")
  ELSE IF config.agent_key = "" THEN Resp(500, "Server misconfigured")
  ELSE IF key # config.agent_key THEN Resp(401, "Invalid API key")
  ELSE NoResp

\* A protected endpoint: dependency first, then the body's validation.
Admit(key, well_formed) ==
  IF verify_api_key(key) # NoResp THEN verify_api_key(key)
  ELSE IF ~well_formed THEN Resp(422, "validation error")
  ELSE NoResp

(***************************************************************************)
(* Document-store reads.                                                   *)
(***************************************************************************)
\* get_integration: find_one({"user_id", "provider": provider.lower()}); the
\* documents find_one may return (NoDoc when none matches).
get_integration(user, provider) ==
  LET m == {d \in integrations : d.user_id = user /\ d.provider = Lower(provider)}
  IN IF m = {} THEN {NoDoc} ELSE m

\* get_integration_by_connection_id: find_one({"composio_connection_id"})
get_integration_by_connection_id(cid) ==
  LET m == {d \in integrations : d.composio_connection_id = cid}
  IN IF m = {} THEN {NoDoc} ELSE m

(***************************************************************************)
(* POST /api/integrations/connect                                          *)
(***************************************************************************)
\* The messages of the connect endpoint, as the f-strings that build them.
UnsupportedDetail ==
  "Unsupported integration: {provider}. Supported: {SUPPORTED_INTEGRATIONS}"

AlreadyActiveDetail == "User already has an active {provider} connection"

ConnectionFailedDetail == "Connection failed: {str(e)}"

\* The keywords IntegrationService.initiate_connection passes to the wrapper
\* and the parameters ComposioService.initiate_connection declares: a call
\* with a keyword the callee does not declare raises TypeError before the
\* callee's body runs.
InitiateCallKeywords == {"user_id", "app_name", "session_id", "force_reauth"}

InitiateConnectionParameters == {"user_id", "app_name", "redirect_url", "force_reauth"}

InitiateRaisesTypeError == ~(InitiateCallKeywords \subseteq InitiateConnectionParameters)

\* A router without the provider check.
NothingUnsupported(provider) == FALSE

\* provider not in SUPPORTED_INTEGRATIONS (the router's check, on the
\* lower-cased name)
Unsupported(provider) == Lower(provider) \notin SUPPORTED_INTEGRATIONS

\* An initiate_connection without the check of an active record.
ActiveNeverChecked(existing, force_reauth) == FALSE

\* if existing and existing.get("status") == "active" and not force_reauth:
\*     raise ValueError("... already has an active connection ...")
ActiveWithoutForce(existing, force_reauth) ==
  existing # NoDoc /\ existing.status = "active" /\ ~force_reauth

\* Where initiate_connection goes after the existing-record check and the
\* force_reauth delete: store the session if a redirect_url was given.
AfterExisting(rec) ==
  [rec EXCEPT !.pc = IF rec.a.redirect_url # NoUrl THEN "store_session"
                     ELSE "cleanup"]

\* The request arrives: verify_api_key, body validation, the provider check;
\* the handler then awaits get_integration.  The uuid4 of the session is
\* drawn here (values are never reused, and nothing sees the value before
\* store_oauth_session inserts it).
StartConnect(r, a) ==
  /\ Free(r)
  /\ LET adm == Admit(a.key, a.ok)
         base == [Idle EXCEPT !.op = "connect", !.a = a]
         draws == adm = NoResp /\ ~Unsupported(a.provider) /\ a.redirect_url # NoUrl
     IN /\ draws => nextSession <= MaxSessions
        /\ nextSession' = IF draws THEN nextSession + 1 ELSE nextSession
        /\ Step(r,
             IF adm # NoResp THEN Finish(base, adm)
             ELSE IF Unsupported(a.provider)
               THEN Finish([base EXCEPT !.ran = TRUE], Resp(400, UnsupportedDetail))
             ELSE [base EXCEPT !.pc = "get_integration", !.ran = TRUE,
                               !.sid = IF draws THEN nextSession ELSE 0])
  /\ UNCHANGED <<helper_vars, config, integrations, oauth_sessions, platform, now, log>>

\* existing = await self.get_integration(user_id, provider), and the check
\* of an active record.  Any exception of the service is answered by the
\* router with 500 "Connection failed: ...", a ValueError with 400.
ConnectGetIntegration(r) ==
  /\ req[r].op = "connect" /\ req[r].pc = "get_integration"
  /\ \E ok \in BOOLEAN, existing \in get_integration(req[r].a.user_id, req[r].a.provider) :
       Step(r,
         IF ~ok THEN Finish(req[r], Resp(500, ConnectionFailedDetail))
         ELSE LET rec == [req[r] EXCEPT !.existing = existing, !.read = TRUE]
              IN IF ActiveWithoutForce(existing, rec.a.force_reauth)
                   THEN Finish(rec, Resp(400, AlreadyActiveDetail))
                 ELSE IF rec.a.force_reauth /\ existing # NoDoc
                   THEN [rec EXCEPT !.pc = "delete_existing"]
                 ELSE AfterExisting(rec))
  /\ UNCHANGED <<helper_vars, config, integrations, oauth_sessions, platform, now, nextSession, log>>

\* A delete that empties the collection.
delete_every(existing) == {}

\* collection.delete_one({"_id": existing["_id"]}): the collection it leaves.
delete_one_by_id(existing) == {d \in integrations : d.id # existing.id}

\* force_reauth: await collection.delete_one({"_id": existing["_id"]})
ConnectDeleteExisting(r) ==
  /\ req[r].op = "connect" /\ req[r].pc = "delete_existing"
  /\ \E ok \in BOOLEAN :
       /\ integrations' = IF ok THEN delete_one_by_id(req[r].existing)
                          ELSE integrations
       /\ Step(r,
            IF ~ok THEN Finish(req[r], Resp(500, ConnectionFailedDetail))
            ELSE AfterExisting([req[r] EXCEPT !.existing = NoDoc, !.wrote = TRUE]))
  /\ UNCHANGED <<helper_vars, config, oauth_sessions, platform, now, nextSession, log>>

\* A store_oauth_session that stores the session without its redirect_url.
store_without_redirect(session_id, redirect_url, user_id, provider) ==
  oauth_sessions \cup {[session_id |-> session_id, redirect_url |-> NoUrl,
                        user_id |-> user_id, provider |-> provider,
                        created_at |-> now]}

\* store_oauth_session: insert_one with created_at = utcnow()
store_oauth_session(session_id, redirect_url, user_id, provider) ==
  oauth_sessions \cup {[session_id |-> session_id, redirect_url |-> redirect_url,
                        user_id |-> user_id, provider |-> provider,
                        created_at |-> now]}

ConnectStoreSession(r) ==
  /\ req[r].op = "connect" /\ req[r].pc = "store_session"
  /\ \E ok \in BOOLEAN :
       /\ oauth_sessions' =
            IF ok THEN store_oauth_session(req[r].sid, req[r].a.redirect_url,
                                           req[r].a.user_id, Lower(req[r].a.provider))
            ELSE oauth_sessions
       /\ log' = IF ok THEN [log EXCEPT ![req[r].sid] =
                                 [@ EXCEPT !.stored = req[r].a.redirect_url, !.calls = 0]]
                 ELSE log
       /\ Step(r,
            IF ~ok THEN Finish(req[r], Resp(500, ConnectionFailedDetail))
            ELSE [req[r] EXCEPT !.pc = "cleanup", !.wrote = TRUE])
  /\ UNCHANGED <<helper_vars, config, integrations, platform, now, nextSession>>

\* A cleanup that deletes every session.
cleanup_all_oauth_sessions(max_age_minutes) == {}

\* cleanup_old_oauth_sessions: delete_many({"created_at": {"$lt": cutoff}});
\* the collection it leaves.  It returns result.deleted_count.
cleanup_old_oauth_sessions(max_age_minutes) ==
  {s \in oauth_sessions : ~(s.created_at < now - max_age_minutes)}

\* The cleanup (its failure is swallowed), then the call of the wrapper,
\* which does not yield: it raises TypeError, which the router answers.  The
\* wrapper's body does not run: no callback URL is handed to the platform
\* (handed stays NoUrl) and the platform is not called.
ConnectCleanup(r) ==
  /\ req[r].op = "connect" /\ req[r].pc = "cleanup"
  /\ InitiateRaisesTypeError
  /\ \E ok \in BOOLEAN :
       /\ oauth_sessions' = IF ok THEN cleanup_old_oauth_sessions(MaxAgeMinutes)
                            ELSE oauth_sessions
       /\ log' = IF ok THEN [s \in DOMAIN log |->
                                 [log[s] EXCEPT !.expired =
                                    @ \/ \E d \in oauth_sessions :
                                           /\ d.session_id = s
                                           /\ d \notin cleanup_old_oauth_sessions(MaxAgeMinutes)]]
                 ELSE log
       /\ Step(r,
            Finish([req[r] EXCEPT
                      !.wrote = req[r].wrote \/ ok,
                      !.deleted =
                        IF ok THEN Cardinality(oauth_sessions
                                     \ cleanup_old_oauth_sessions(MaxAgeMinutes))
                        ELSE -1],
                   Resp(500, ConnectionFailedDetail)))
  /\ UNCHANGED <<helper_vars, config, integrations, platform, now, nextSession>>

(***************************************************************************)
(* GET /api/integrations/callback (no API key)                             *)
(***************************************************************************)
\* An unhandled exception of a handler: the framework answers 500.
InternalError == Resp(500, "Internal Server Error")

\* The redirect of the success branch.
SuccessRedirect(rec) ==
  Redirect(AppendParams(rec.final, {<<"status", "success">>,
                                    <<"appName", rec.a.appName>>}))

\* The handler from "if not final_redirect" on: the default redirect, the
\* scheme, then the branch on error / status / appName.  session is the
\* document get_oauth_session returned, or NoDoc.
CallbackBranch(rec0, session) ==
  LET redirect == IF session # NoDoc THEN session.redirect_url ELSE NoUrl
      final == EnsureScheme(IF redirect = NoUrl THEN OAUTH_REDIRECT_BASE
                            ELSE redirect)
      rec == [rec0 EXCEPT !.final = final, !.session = session]
  IN IF Truthy(rec.a.error)
       THEN Finish(rec, Redirect(AppendParams(final,
              {<<"error", rec.a.error>>,
               <<"message", IF Truthy(rec.a.error_description)
                              THEN rec.a.error_description ELSE rec.a.error>>})))
     ELSE IF rec.a.status = "success" /\ Truthy(rec.a.appName)
       THEN IF Truthy(rec.a.connectedAccountId)
              THEN [rec EXCEPT !.pc = "find_by_connection"]
            ELSE Finish(rec, SuccessRedirect(rec))
     ELSE Finish(rec, Redirect(AppendParams(final,
                                {<<"status", "callback_received">>})))

\* The request arrives; session_id 0 stands for a missing parameter.
StartCallback(r, a) ==
  /\ Free(r)
  /\ LET base == [Idle EXCEPT !.op = "callback", !.a = a, !.ran = TRUE]
     IN Step(r,
          IF a.session_id # 0 THEN [base EXCEPT !.pc = "get_session"]
          ELSE CallbackBranch(base, NoDoc))
  /\ UNCHANGED <<helper_vars, config, integrations, oauth_sessions, platform, now, nextSession, log>>

\* get_oauth_session: find_one_and_delete({"session_id": session_id}); the
\* documents it may return (NoDoc when none matches).
get_oauth_session(session_id) ==
  LET m == {s \in oauth_sessions : s.session_id = session_id}
  IN IF m = {} THEN {NoDoc} ELSE m

\* A lookup by find_one: the session stays in the collection.
find_one_only(session) == oauth_sessions

\* The collection after find_one_and_delete returned the session.
find_one_and_delete(session) == oauth_sessions \ {session}

\* session = await get_oauth_session(session_id), then the branch.  first
\* records whether this was the first lookup made with the session id.
CallbackGetSession(r) ==
  /\ req[r].op = "callback" /\ req[r].pc = "get_session"
  /\ \E ok \in BOOLEAN, session \in get_oauth_session(req[r].a.session_id) :
       /\ oauth_sessions' = IF ok THEN find_one_and_delete(session) ELSE oauth_sessions
       /\ log' = IF ok /\ req[r].a.session_id \in DOMAIN log
                   THEN [log EXCEPT ![req[r].a.session_id] =
                           [@ EXCEPT !.calls = 1,
                                     !.hits = IF session # NoDoc /\ @ < 2
                                                THEN @ + 1 ELSE @]]
                 ELSE log
       /\ Step(r,
            IF ~ok THEN Finish(req[r], InternalError)
            ELSE CallbackBranch([req[r] EXCEPT !.read = TRUE,
                                          !.wrote = session # NoDoc,
                                          !.first = req[r].a.session_id \in DOMAIN log
                                                    /\ log[req[r].a.session_id].calls = 0],
                                session))
  /\ UNCHANGED <<helper_vars, config, integrations, platform, now, nextSession>>

\* integration = await service.get_integration_by_connection_id(...)
CallbackFindIntegration(r) ==
  /\ req[r].op = "callback" /\ req[r].pc = "find_by_connection"
  /\ \E ok \in BOOLEAN,
        integration \in get_integration_by_connection_id(req[r].a.connectedAccountId) :
       Step(r,
         IF ~ok THEN Finish(req[r], InternalError)
         ELSE LET rec == [req[r] EXCEPT !.existing = integration, !.read = TRUE]
              IN IF integration # NoDoc THEN [rec EXCEPT !.pc = "complete"]
                 ELSE Finish(rec, SuccessRedirect(rec)))
  /\ UNCHANGED <<helper_vars, config, integrations, oauth_sessions, platform, now, nextSession, log>>

\* A $set that leaves the record pending.
CompleteSetPending(d, connected_email) ==
  [d EXCEPT !.status = "pending", !.connected_email = connected_email]

\* The $set of complete_connection applied to a matched document.
CompleteSet(d, connected_email) ==
  [d EXCEPT !.status = "active", !.connected_email = connected_email,
            !.composio_entity_id = EntityId(d.user_id)]

\* complete_connection(user_id=integration["user_id"], provider=appName):
\* update_one(..., upsert=True).  The store runs the query of an upsert and,
\* when nothing matched, the insert, as two operations: another operation
\* may run between them, and only a unique index makes the insert fail then.
CallbackComplete(r) ==
  /\ req[r].op = "callback" /\ req[r].pc = "complete"
  /\ \E ok \in BOOLEAN,
        d \in get_integration(req[r].existing.user_id, req[r].a.appName) :
       /\ integrations' = IF ok /\ d # NoDoc
                            THEN (integrations \ {d}) \cup {CompleteSet(d, None)}
                          ELSE integrations
       /\ Step(r,
            IF ~ok THEN Finish(req[r], InternalError)
            ELSE IF d # NoDoc THEN Finish([req[r] EXCEPT !.wrote = TRUE], SuccessRedirect(req[r]))
            ELSE [req[r] EXCEPT !.pc = "upsert_insert"])
  /\ UNCHANGED <<helper_vars, config, oauth_sessions, platform, now, nextSession, log>>

\* The insert of the upsert ($set and $setOnInsert on a new document).  With
\* the unique index, an insert that meets a document of the pair fails with
\* a duplicate key: the server retries the upsert as an update, or (older
\* servers) the error reaches the handler.
CallbackUpsertInsert(r) ==
  /\ req[r].op = "callback" /\ req[r].pc = "upsert_insert"
  /\ \E retried \in BOOLEAN,
        d \in get_integration(req[r].existing.user_id, req[r].a.appName) :
       LET new == Doc(FreshId, req[r].existing.user_id, Lower(req[r].a.appName),
                      None, "active", None)
           dup == UniqueIndex /\ d # NoDoc
       IN /\ integrations' =
               IF ~dup THEN integrations \cup {new}
               ELSE IF retried THEN (integrations \ {d}) \cup {CompleteSet(d, None)}
               ELSE integrations
          /\ Step(r,
               IF dup /\ ~retried THEN Finish(req[r], InternalError)
               ELSE Finish([req[r] EXCEPT !.wrote = TRUE], SuccessRedirect(req[r])))
  /\ UNCHANGED <<helper_vars, config, oauth_sessions, platform, now, nextSession, log>>

(***************************************************************************)
(* The platform wrapper (ComposioService).                                 *)
(***************************************************************************)
\* self._client is None without COMPOSIO_API_KEY: the client property raises.
ClientReady == config.composio_key # ""

\* The app get_connection detects for a connected account, by the four
\* methods in their order; None when none applies.
ConnSlug(k, app) ==
  IF Truthy(k.slug) THEN Lower(k.slug)
  ELSE IF Truthy(k.app_name) THEN Lower(k.app_name)
  ELSE IF Lower(app) \in DOMAIN AUTH_CONFIG_MAP
          /\ k.auth_config_id = AUTH_CONFIG_MAP[Lower(app)] THEN Lower(app)
  ELSE IF Lower(app) \in k.integration_id_has THEN Lower(app)
  ELSE None

\* A get_connection that answers from the accounts even when the platform's
\* list call raised.
get_connection_despite_failure(entity, app, listed) ==
  LET m == {k \in platform : k.user = entity /\ ConnSlug(k, app) = Lower(app)}
  IN IF ~ClientReady \/ m = {} THEN {NoDoc} ELSE m

\* get_connection: the accounts it may return (the first match of the
\* platform's list, whose order is the platform's), NoDoc for None.  listed
\* is whether connected_accounts.list answered; every exception gives None.
get_connection(entity, app, listed) ==
  LET m == {k \in platform : k.user = entity /\ ConnSlug(k, app) = Lower(app)}
  IN IF ~ClientReady \/ ~listed \/ m = {} THEN {NoDoc} ELSE m

(***************************************************************************)
(* POST /api/integrations/disconnect                                       *)
(***************************************************************************)
StartDisconnect(r, a) ==
  /\ Free(r)
  /\ LET adm == Admit(a.key, a.ok)
         base == [Idle EXCEPT !.op = "disconnect", !.a = a]
     IN Step(r,
          IF adm # NoResp THEN Finish(base, adm)
          ELSE [base EXCEPT !.pc = "get_integration", !.ran = TRUE])
  /\ UNCHANGED <<helper_vars, config, integrations, oauth_sessions, platform, now, nextSession, log>>

\* integration = await self.get_integration(...); then the wrapper's
\* disconnect (get_connection, connected_accounts.delete), whose exceptions
\* are swallowed.  deleted is whether the platform's delete succeeded.
DisconnectGetIntegration(r) ==
  /\ req[r].op = "disconnect" /\ req[r].pc = "get_integration"
  /\ \E ok, listed, deleted \in BOOLEAN,
        integration \in get_integration(req[r].a.user_id, req[r].a.provider) :
       IF ~ok \/ integration = NoDoc
       THEN /\ Step(r,
                 IF ~ok THEN Finish(req[r], InternalError)
                 ELSE Finish([req[r] EXCEPT !.read = TRUE], Resp(404, "No integration found")))
            /\ platform' = platform
       ELSE \E k \in get_connection(integration.composio_entity_id,
                                    Lower(req[r].a.provider), listed) :
            /\ platform' = IF k # NoDoc /\ deleted THEN platform \ {k} ELSE platform
            /\ Step(r,
                 [req[r] EXCEPT !.existing = integration, !.read = TRUE,
                           !.plat = ClientReady, !.pc = "delete_record"])
  /\ UNCHANGED <<helper_vars, config, integrations, oauth_sessions, now, nextSession, log>>

\* A delete_one that deletes nothing.
delete_nothing(d) == integrations

\* collection.delete_one({"user_id", "provider"}) when d is the document
\* the filter matches (NoDoc when none does): the collection it leaves.
delete_one(d) == integrations \ {d}

\* result = await collection.delete_one({"user_id", "provider"});
\* deleted_count > 0 decides between the 200 and the 404.
DisconnectDeleteRecord(r) ==
  /\ req[r].op = "disconnect" /\ req[r].pc = "delete_record"
  /\ \E ok \in BOOLEAN,
        d \in get_integration(req[r].a.user_id, req[r].a.provider) :
       /\ integrations' = IF ok THEN delete_one(d) ELSE integrations
       /\ Step(r,
            IF ~ok THEN Finish(req[r], InternalError)
            ELSE IF d = NoDoc THEN Finish(req[r], Resp(404, "No integration found"))
            ELSE Finish([req[r] EXCEPT !.wrote = TRUE], Resp(200, "disconnected successfully")))
  /\ UNCHANGED <<helper_vars, config, oauth_sessions, platform, now, nextSession, log>>

(***************************************************************************)
(* POST /api/tools/execute                                                 *)
(***************************************************************************)
\* An action name is the sequence of its parts between underscores:
\* GMAIL_SEND_EMAIL is <<"GMAIL", "SEND", "EMAIL">>.
\* provider = action.split("_")[0].lower()
ActionProvider(action) == Lower(Head(action))

\* The body of the response: ToolExecuteResponse(success, result, error).
ExecuteResponse(success, error) ==
  [Resp(200, "ToolExecuteResponse") EXCEPT !.success = success, !.error = error]

\* What the platform's tools.execute does: it returns, or raises a
\* ComposioError or another exception.  message is str(e): the text the
\* exception was raised with, empty for one raised without arguments.
ExecuteOutcomes ==
  {[raised |-> "no", message |-> None],
   [raised |-> "ComposioError", message |-> "platform error"],
   [raised |-> "Exception", message |-> "connection reset"],
   [raised |-> "Exception", message |-> ""]}

\* execute_action: the result of the call, every exception turned into
\* {"success": False, "error": str(e)}.
execute_action(outcome) ==
  IF outcome.raised = "no" THEN ExecuteResponse(TRUE, None)
  ELSE ExecuteResponse(FALSE, outcome.message)

\* An execute_tool that does not look at what get_connection returned.
execute_tool_unchecked(composio_connection, outcome) ==
  [executed |-> TRUE, resp |-> execute_action(outcome)]

\* IntegrationService.execute_tool after the lookups: composio_connection
\* is what get_connection returned.  Whether execute_action was called, and
\* the result.
execute_tool(composio_connection, outcome) ==
  IF composio_connection = NoDoc
    THEN [executed |-> FALSE,
          resp |-> ExecuteResponse(FALSE, "User does not have it connected")]
  ELSE [executed |-> TRUE, resp |-> execute_action(outcome)]

StartExecute(r, a) ==
  /\ Free(r)
  /\ LET adm == Admit(a.key, a.ok)
         base == [Idle EXCEPT !.op = "execute", !.a = a]
     IN Step(r,
          IF adm # NoResp THEN Finish(base, adm)
          ELSE [base EXCEPT !.pc = "get_integration", !.ran = TRUE])
  /\ UNCHANGED <<helper_vars, config, integrations, oauth_sessions, platform, now, nextSession, log>>

\* integration = await self.get_integration(...); then, without yielding,
\* the wrapper's get_connection and execute_action.  An exception of the
\* service is answered with success=False, "Execution failed".
ExecuteTool(r) ==
  /\ req[r].op = "execute" /\ req[r].pc = "get_integration"
  /\ \E ok, listed \in BOOLEAN, outcome \in ExecuteOutcomes,
        integration \in get_integration(req[r].a.user_id, ActionProvider(req[r].a.action)) :
       LET entity == IF integration # NoDoc THEN integration.composio_entity_id
                     ELSE EntityId(req[r].a.user_id)
       IN \E k \in get_connection(entity, ActionProvider(req[r].a.action), listed) :
            Step(r,
              IF ~ok THEN Finish(req[r], ExecuteResponse(FALSE, "Execution failed"))
              ELSE LET rec == [req[r] EXCEPT !.existing = integration, !.read = TRUE,
                                        !.plat = ClientReady, !.connection = k]
                       result == execute_tool(k, outcome)
                   IN Finish([rec EXCEPT !.executed = result.executed], result.resp))
  /\ UNCHANGED <<helper_vars, config, integrations, oauth_sessions, platform, now, nextSession, log>>

(***************************************************************************)
(* The endpoints that read only: GET /api/integrations, /connected,        *)
(* /{provider}/status, GET /api/tools, /actions/{provider},                *)
(* /schema/{action}, /health.                                              *)
(***************************************************************************)
\* The endpoints whose signature carries Depends(verify_api_key).
ProtectedEndpoints == {"list_available", "list_connected", "connect", "disconnect",
                       "status", "list_tools", "execute", "list_actions", "schema"}

PublicEndpoints == {"callback", "health"}

ReadOnlyEndpoints == {"list_available", "list_connected", "status", "list_tools",
                      "list_actions", "schema", "health"}

\* The endpoints whose body awaits a read of the integrations collection.
StoreReaders == {"list_connected", "status", "list_tools"}

\* The statuses the body of a read-only endpoint may answer with, given
\* whether its read of the store succeeded.
BodyStatuses(endpoint, ok) ==
  CASE endpoint \in {"list_available", "health"} -> {200}
    [] endpoint \in StoreReaders -> IF ok THEN {200} ELSE {500}
    [] endpoint = "list_actions" -> {200, 404, 500}
    [] endpoint = "schema" -> {200, 404, 500, 502}

\* A selection that takes every record of the user, whatever its status.
EveryProvider(user) ==
  {d.provider : d \in {e \in integrations : e.user_id = user}}

\* get_user_tools asks the platform only for a user with active providers.
ActiveProviders(user) ==
  {d.provider : d \in {e \in integrations : e.user_id = user /\ e.status = "active"}}

\* The whole request: none of these handlers has more than one await.
ReadEndpoint(r, a) ==
  /\ Free(r)
  /\ a.endpoint \in ReadOnlyEndpoints
  /\ LET adm == IF a.endpoint \in ProtectedEndpoints THEN Admit(a.key, a.ok) ELSE NoResp
         base == [Idle EXCEPT !.op = a.endpoint, !.a = a]
     IN \E ok \in BOOLEAN :
        \E status \in BodyStatuses(a.endpoint, ok) :
          Step(r,
            IF adm # NoResp THEN Finish(base, adm)
            ELSE Finish([base EXCEPT
                   !.ran = TRUE,
                   !.read = a.endpoint \in StoreReaders,
                   !.plat = \/ a.endpoint \in {"list_actions", "schema"} /\ ClientReady
                            \/ a.endpoint = "list_tools" /\ ok /\ ClientReady
                               /\ ActiveProviders(a.user_id) # {}],
                 Resp(status, "handled")))
  /\ UNCHANGED <<helper_vars, config, integrations, oauth_sessions, platform, now, nextSession, log>>

(***************************************************************************)
(* The environment: time passes; accounts are connected and revoked on the *)
(* platform's side.                                                        *)
(***************************************************************************)
Tick ==
  /\ now < MaxTicks * TickMinutes
  /\ now' = now + TickMinutes
  /\ last' = Idle
  /\ UNCHANGED <<helper_vars, config, integrations, oauth_sessions, platform, nextSession, req, log>>

PlatformChange(k) ==
  /\ platform' = IF k \in platform THEN platform \ {k} ELSE platform \cup {k}
  /\ last' = Idle
  /\ UNCHANGED <<helper_vars, config, integrations, oauth_sessions, now, nextSession, req, log>>

(***************************************************************************)
(* Requests.                                                               *)
(***************************************************************************)
Keys == {None, "wrong", "secret"}

ProviderInputs == {"gmail", "GMAIL", "slack", "notion"}

ConnectRequest(key, ok, user, provider, redirect, force) ==
  [key |-> key, ok |-> ok, user_id |-> user, provider |-> provider,
   redirect_url |-> redirect, force_reauth |-> force]

CallbackRequest(status, app, account, error, description, session) ==
  [status |-> status, appName |-> app, connectedAccountId |-> account,
   error |-> error, error_description |-> description, session_id |-> session]

UserRequest(key, ok, user, provider) ==
  [key |-> key, ok |-> ok, user_id |-> user, provider |-> provider]

ExecuteRequest(key, ok, user, action) ==
  [key |-> key, ok |-> ok, user_id |-> user, action |-> action]

ReadRequest(endpoint, key, ok, user) ==
  [endpoint |-> endpoint, key |-> key, ok |-> ok, user_id |-> user]

Actions == {<<"GMAIL", "SEND", "EMAIL">>, <<"SLACK", "POST">>, <<"NOTION">>}

\* a session id no session ever carries
UnknownSession == MaxSessions + 1

(***************************************************************************)
(* Spec: the lifecycle of the integration records.  Connect (without a     *)
(* redirect_url), the callback (without a session_id) and disconnect, for  *)
(* two users, any two of them in flight together.                          *)
(***************************************************************************)
ConnectInputs ==
  {ConnectRequest("secret", TRUE, user, provider, NoUrl, force) :
     user \in Users, provider \in {"GMAIL", "notion"}, force \in BOOLEAN}

CallbackInputs ==
  {CallbackRequest("success", app, account, None, None, 0) :
     app \in {"gmail", "SLACK"}, account \in {"c1", "c7"}}

DisconnectInputs ==
  {UserRequest("secret", TRUE, user, "Gmail") : user \in Users}

Next ==
  \/ \E r \in Slots, a \in ConnectInputs : StartConnect(r, a)
  \/ \E r \in Slots : ConnectGetIntegration(r)
  \/ \E r \in Slots : ConnectDeleteExisting(r)
  \/ \E r \in Slots : ConnectCleanup(r)
  \/ \E r \in Slots, a \in CallbackInputs : StartCallback(r, a)
  \/ \E r \in Slots : CallbackFindIntegration(r)
  \/ \E r \in Slots : CallbackComplete(r)
  \/ \E r \in Slots : CallbackUpsertInsert(r)
  \/ \E r \in Slots, a \in DisconnectInputs : StartDisconnect(r, a)
  \/ \E r \in Slots : DisconnectGetIntegration(r)
  \/ \E r \in Slots : DisconnectDeleteRecord(r)

InitLifecycle ==
  /\ Init
  /\ config = [agent_key |-> "secret", composio_key |-> "ck"]
  /\ platform = PlatformAccounts

Spec == InitLifecycle /\ [][Next]_vars

(***************************************************************************)
(* SpecStatus: the lifecycle of one user's records: connect with and       *)
(* without force_reauth, callbacks and disconnect, any two in flight       *)
(* together.                                                               *)
(***************************************************************************)
NextStatus ==
  \/ \E r \in Slots, a \in {c \in ConnectInputs : c.user_id = "u1"} : StartConnect(r, a)
  \/ \E r \in Slots : ConnectGetIntegration(r)
  \/ \E r \in Slots : ConnectDeleteExisting(r)
  \/ \E r \in Slots : ConnectCleanup(r)
  \/ \E r \in Slots, a \in {c \in CallbackInputs : c.connectedAccountId = "c1"} :
        StartCallback(r, a)
  \/ \E r \in Slots : CallbackFindIntegration(r)
  \/ \E r \in Slots : CallbackComplete(r)
  \/ \E r \in Slots : CallbackUpsertInsert(r)
  \/ \E r \in Slots, a \in {d \in DisconnectInputs : d.user_id = "u1"} :
        StartDisconnect(r, a)
  \/ \E r \in Slots : DisconnectGetIntegration(r)
  \/ \E r \in Slots : DisconnectDeleteRecord(r)

SpecStatus == InitLifecycle /\ [][NextStatus]_vars

(***************************************************************************)
(* SpecConnect: connect in all its branches (supported or not, with and    *)
(* without redirect_url and force_reauth), racing with callbacks that      *)
(* activate the record.                                                    *)
(***************************************************************************)
AllConnectInputs ==
  {ConnectRequest("secret", TRUE, "u1", provider, redirect, force) :
     provider \in {"GMAIL", "not_a_real_provider"},
     redirect \in {NoUrl, Url("https", "app.example/done", {})},
     force \in BOOLEAN}

ActivatingCallbackInputs ==
  {CallbackRequest("success", "gmail", "c1", None, None, 0)}

NextConnect ==
  \/ \E r \in Slots, a \in AllConnectInputs : StartConnect(r, a)
  \/ \E r \in Slots : ConnectGetIntegration(r)
  \/ \E r \in Slots : ConnectDeleteExisting(r)
  \/ \E r \in Slots : ConnectStoreSession(r)
  \/ \E r \in Slots : ConnectCleanup(r)
  \/ \E r \in Slots, a \in ActivatingCallbackInputs : StartCallback(r, a)
  \/ \E r \in Slots : CallbackFindIntegration(r)
  \/ \E r \in Slots : CallbackComplete(r)
  \/ \E r \in Slots : CallbackUpsertInsert(r)

SpecConnect == InitLifecycle /\ [][NextConnect]_vars

(***************************************************************************)
(* SpecSessions: the OAuth sessions.  Connect with a redirect_url, and     *)
(* callbacks that carry session ids, any two in flight together, while     *)
(* time passes.                                                            *)
(***************************************************************************)
SessionConnectInputs ==
  {ConnectRequest("secret", TRUE, "u1", "gmail", redirect, FALSE) :
     redirect \in RedirectUrls}

OneRedirectConnectInputs ==
  {ConnectRequest("secret", TRUE, "u1", "gmail", Url("https", "app.example/done", {}), FALSE)}

SchemelessConnectInputs ==
  {ConnectRequest("secret", TRUE, "u1", "gmail", redirect, FALSE) :
     redirect \in {u \in RedirectUrls : u.scheme = ""}}

SessionCallbackInputs ==
  {CallbackRequest("success", "gmail", None, None, None, session) :
     session \in 1..UnknownSession}

NextSessions ==
  \/ \E r \in Slots, a \in OneRedirectConnectInputs : StartConnect(r, a)
  \/ \E r \in Slots : ConnectGetIntegration(r)
  \/ \E r \in Slots : ConnectStoreSession(r)
  \/ \E r \in Slots : ConnectCleanup(r)
  \/ \E r \in Slots, a \in SessionCallbackInputs : StartCallback(r, a)
  \/ \E r \in Slots : CallbackGetSession(r)
  \/ Tick

InitSessions ==
  /\ Init
  /\ config = [agent_key |-> "secret", composio_key |-> "ck"]
  /\ platform = {}
  /\ integrations = {Doc(1, "u1", "gmail", "c1", "pending", None)}

SpecSessions == InitSessions /\ [][NextSessions]_vars

(***************************************************************************)
(* SpecCallback: one callback at a time, over every combination of its     *)
(* query parameters, with sessions to look up and records to complete.     *)
(***************************************************************************)
AllCallbackInputs ==
  {CallbackRequest(status, app, account, error, description, session) :
     status \in {None, "success"}, app \in {None, "gmail"},
     account \in {None, "c1"}, error \in {None, "", "access_denied"},
     description \in {None, "denied by the user"}, session \in {0, 1, UnknownSession}}

NextCallback ==
  \/ \E a \in SchemelessConnectInputs : StartConnect("s1", a)
  \/ ConnectGetIntegration("s1")
  \/ ConnectStoreSession("s1")
  \/ ConnectCleanup("s1")
  \/ \E a \in AllCallbackInputs : StartCallback("s1", a)
  \/ CallbackGetSession("s1")
  \/ CallbackFindIntegration("s1")
  \/ CallbackComplete("s1")

SpecCallback == InitSessions /\ [][NextCallback]_vars

(***************************************************************************)
(* SpecTools: tool execution and the read-only endpoints, while accounts   *)
(* come and go on the platform, with and without COMPOSIO_API_KEY.         *)
(***************************************************************************)
ExecuteInputs ==
  {ExecuteRequest("secret", TRUE, user, action) : user \in Users, action \in Actions}

ReadInputs ==
  {ReadRequest(endpoint, "secret", TRUE, user) :
     endpoint \in ReadOnlyEndpoints, user \in Users}

NextTools ==
  \/ \E a \in ExecuteInputs : StartExecute("s1", a)
  \/ ExecuteTool("s1")
  \/ \E a \in ReadInputs : ReadEndpoint("s1", a)
  \/ \E k \in PlatformAccounts : PlatformChange(k)

InitTools ==
  /\ Init
  /\ config.agent_key = "secret"
  /\ platform = {}

SpecTools == InitTools /\ [][NextTools]_vars

(***************************************************************************)
(* SpecAuth: every protected endpoint and /health, one request at a time,  *)
(* with a missing, a wrong and the right X-API-Key, with and without       *)
(* AGENT_API_KEY configured.                                               *)
(***************************************************************************)
AuthConnectInputs ==
  {ConnectRequest(key, ok, "u1", provider, redirect, force) :
     key \in Keys, ok \in BOOLEAN, provider \in {"gmail", "notion"},
     redirect \in {NoUrl, Url("https", "app.example/done", {})}, force \in {TRUE}}

AuthUserInputs ==
  {UserRequest(key, ok, "u1", "gmail") : key \in Keys, ok \in BOOLEAN}

AuthExecuteInputs ==
  {ExecuteRequest(key, ok, "u1", <<"GMAIL", "SEND", "EMAIL">>) :
     key \in Keys, ok \in BOOLEAN}

AuthReadInputs ==
  {ReadRequest(endpoint, key, ok, "u1") :
     endpoint \in ReadOnlyEndpoints, key \in Keys, ok \in BOOLEAN}

NextAuth ==
  \/ \E a \in AuthConnectInputs : StartConnect("s1", a)
  \/ ConnectGetIntegration("s1")
  \/ ConnectDeleteExisting("s1")
  \/ ConnectStoreSession("s1")
  \/ ConnectCleanup("s1")
  \/ \E a \in AuthUserInputs : StartDisconnect("s1", a)
  \/ DisconnectGetIntegration("s1")
  \/ DisconnectDeleteRecord("s1")
  \/ \E a \in AuthExecuteInputs : StartExecute("s1", a)
  \/ ExecuteTool("s1")
  \/ \E a \in AuthReadInputs : ReadEndpoint("s1", a)

InitAuth ==
  /\ Init
  /\ config.composio_key = "ck"
  /\ platform = PlatformAccounts
  /\ integrations = {Doc(1, "u1", "gmail", "c1", "active", "u1@mail")}

SpecAuth == InitAuth /\ [][NextAuth]_vars

(***************************************************************************)
(* Properties.  last is the record of the request answered by the step     *)
(* just taken: its arguments (a), what its steps read (existing, session,  *)
(* connection), what it did (ran, read, wrote, plat, executed) and its     *)
(* response (resp).                                                        *)
(***************************************************************************)
\* The host and path of a URL, without scheme and query.
SameTarget(u, v) == u.rest = v.rest

\* C1: after any interleaving of connects, callbacks (complete_connection)
\* and disconnects, for any users and providers, the integrations collection
\* holds at most one record for each (user_id, provider) pair.
C1_OneRecordPerPair ==
  \A d, e \in integrations :
    (d.user_id = e.user_id /\ d.provider = e.provider) => d = e

\* Two callbacks race for one pair: one has inserted the pair's record while
\* the other, whose query matched nothing, is about to insert.
C1_Witness ==
  \E r \in Slots :
    /\ req[r].op = "callback" /\ req[r].pc = "upsert_insert"
    /\ \E d \in integrations :
         /\ d.user_id = req[r].existing.user_id
         /\ d.provider = Lower(req[r].a.appName)

\* C2: a connect for a pair whose stored record is active, with force_reauth
\* false, is answered 400 with the already-has-an-active-connection error
\* ("User already has an active <provider> connection") and changes nothing:
\* it writes no record, stores no OAuth session, calls no platform.
C2_ActiveConnectRejected ==
  (/\ last.op = "connect" /\ last.read
   /\ last.existing # NoDoc /\ last.existing.status = "active"
   /\ ~last.a.force_reauth)
  => /\ last.resp.status = 400
     /\ last.resp.detail = "User already has an active {provider} connection"
     /\ ~last.wrote /\ ~last.plat
     /\ last.sid # 0 => /\ log[last.sid].stored = NoUrl
                        /\ \A s \in oauth_sessions : s.session_id # last.sid

\* A connect with a redirect_url met an active record and was refused.
C2_Witness ==
  /\ last.op = "connect" /\ last.read
  /\ last.existing # NoDoc /\ last.existing.status = "active"
  /\ ~last.a.force_reauth /\ last.a.redirect_url # NoUrl
  /\ last.resp.status = 400

\* The lookup of a stored session: a callback whose get_oauth_session
\* returned, made with the id of a session store_oauth_session has stored.
LookedUpStored ==
  /\ last.op = "callback" /\ last.read
  /\ last.a.session_id \in DOMAIN log
  /\ log[last.a.session_id].stored # NoUrl

\* C3 as stated: for any session store_oauth_session created, the first
\* get_oauth_session with its id returns the stored redirect URL, and every
\* later one returns an absent result.
C3_OneTimeUse ==
  LookedUpStored =>
    IF last.first
      THEN /\ last.session # NoDoc
           /\ last.session.redirect_url = log[last.a.session_id].stored
    ELSE last.session = NoDoc

\* C3, amended: the first get_oauth_session with the id of a stored session
\* returns the stored redirect URL unless cleanup_old_oauth_sessions has
\* deleted the session (then it returns an absent result); every later one
\* returns an absent result.
C3_OneTimeUseUnlessCleaned ==
  LookedUpStored =>
    IF last.first /\ ~log[last.a.session_id].expired
      THEN /\ last.session # NoDoc
           /\ last.session.redirect_url = log[last.a.session_id].stored
    ELSE last.session = NoDoc

\* A second lookup of a session whose first lookup returned it.
C3_Witness ==
  /\ LookedUpStored /\ ~last.first
  /\ log[last.a.session_id].hits = 1
  /\ last.session = NoDoc

\* C4: of the callbacks that carry one session_id, delivered together or
\* replayed, at most one gets the session and redirects to its stored
\* redirect_url; every other one, like a callback with an unknown
\* session_id, redirects to the default base URL.
C4_OneCallbackSeesSession ==
  /\ \A s \in DOMAIN log : log[s].hits <= 1
  /\ (last.op = "callback" /\ last.read) =>
       /\ last.resp.status = RedirectStatus
       /\ IF last.session # NoDoc
            THEN /\ last.a.session_id \in DOMAIN log
                 /\ SameTarget(last.resp.location, log[last.a.session_id].stored)
          ELSE /\ SameTarget(last.resp.location, OAUTH_REDIRECT_BASE)
               /\ last.resp.location.scheme = OAUTH_REDIRECT_BASE.scheme

\* A callback that came second to the lookup of a session another callback
\* got is redirected to the default base.
C4_Witness ==
  /\ last.op = "callback" /\ last.read /\ ~last.first
  /\ last.a.session_id \in DOMAIN log
  /\ log[last.a.session_id].hits = 1
  /\ SameTarget(last.resp.location, OAUTH_REDIRECT_BASE)

\* C5: every authenticated, well-formed POST /api/tools/execute is answered
\* 200 with success true or false, and every failure carries success=false
\* with a non-empty error.
C5_UniformExecuteResponse ==
  (last.op = "execute" /\ last.ran) =>
    /\ last.resp.status = 200
    /\ last.resp.success \in BOOLEAN
    /\ last.resp.success = FALSE => Truthy(last.resp.error)

\* C6: execute_tool calls execute_action if and only if the platform's
\* lookup returned a connection of the user's entity for the action's
\* provider, whatever record is stored; without one it answers
\* success=false with the not-connected error.
C6_ExecuteIffConnected ==
  (last.op = "execute" /\ last.read) =>
    /\ last.executed <=> last.connection # NoDoc
    /\ last.connection # NoDoc =>
         /\ last.connection \in platform
         /\ last.connection.user =
              (IF last.existing # NoDoc THEN last.existing.composio_entity_id
               ELSE <<"user_", last.a.user_id>>)
    /\ last.connection = NoDoc =>
         /\ last.resp.success = FALSE
         /\ last.resp.error = "User does not have it connected"

\* An action was executed for a user who has no stored record.
C6_Witness ==
  /\ last.op = "execute" /\ last.read
  /\ last.executed /\ last.existing = NoDoc

\* A request to a protected endpoint that carries no valid X-API-Key: the
\* header is missing, or differs from AGENT_API_KEY, or the server has no
\* AGENT_API_KEY that a key could equal.
WithoutValidKey ==
  /\ last.op \in ProtectedEndpoints
  /\ \/ last.a.key = None
     \/ config.agent_key = ""
     \/ last.a.key # config.agent_key

HandlerBodyNotRun ==
  ~last.ran /\ ~last.read /\ ~last.wrote /\ ~last.plat /\ ~last.executed

C8_CallbackAlwaysRedirects ==
  last.op = "callback" => last.resp.status = RedirectStatus

\* The parameters the callback is to append, by the precedence of C9.
ExpectedParams(a) ==
  IF a.error # None /\ a.error # ""
    THEN {<<"error", a.error>>,
          <<"message", IF a.error_description # None /\ a.error_description # ""
                         THEN a.error_description ELSE a.error>>}
  ELSE IF a.status = "success" /\ a.appName # None /\ a.appName # ""
    THEN {<<"status", "success">>, <<"appName", a.appName>>}
  ELSE {<<"status", "callback_received">>}

\* C9: a callback's redirect carries, with error present, error and message
\* (error_description, else error), and then no integration is looked up or
\* completed even with status=success; else, with status=success and an
\* appName, status=success and appName; else status=callback_received.  The
\* other parameters of the redirect are those of the redirect URL itself.
C9_ParameterPrecedence ==
  (last.op = "callback" /\ last.resp.status = RedirectStatus) =>
    LET expected == ExpectedParams(last.a)
        names == {kv[1] : kv \in expected}
        query == last.resp.location.query
    IN /\ expected \subseteq query
       /\ \A kv \in query \ expected : kv \in last.final.query /\ kv[1] \notin names
       /\ (last.a.error # None /\ last.a.error # "") => last.existing = NoDoc

\* A callback with both error and status=success, redirected to a stored
\* redirect URL that has a status parameter of its own.
C9_Witness ==
  /\ last.op = "callback" /\ last.resp.status = RedirectStatus
  /\ last.a.error = "access_denied" /\ last.a.status = "success"
  /\ last.a.connectedAccountId = "c1"
  /\ last.session # NoDoc
  /\ <<"status", "mine">> \in last.resp.location.query

\* C10: a connect whose provider, lower-cased, is not in
\* SUPPORTED_INTEGRATIONS is answered 400 with a message that starts with
\* "Unsupported integration" and has no side effect: no session is stored, no record is read or written, the
\* platform is not called.
C10_UnsupportedRejected ==
  (/\ last.op = "connect" /\ last.ran
   /\ Lower(last.a.provider) \notin SUPPORTED_INTEGRATIONS)
  => /\ last.resp.status = 400
     /\ last.resp.detail =
          "Unsupported integration: {provider}. Supported: {SUPPORTED_INTEGRATIONS}"
     /\ ~last.read /\ ~last.wrote /\ ~last.plat
     /\ last.sid = 0

\* An unsupported connect that asked for a redirect_url and force_reauth.
C10_Witness ==
  /\ last.op = "connect" /\ last.ran
  /\ last.a.provider = "not_a_real_provider"
  /\ last.a.redirect_url # NoUrl /\ last.a.force_reauth
  /\ last.resp.status = 400

\* The status of the record of a pair in a collection, "absent" without one.
StatusOf(coll, user, provider) ==
  LET m == {d \in coll : d.user_id = user /\ d.provider = provider}
  IN IF m = {} THEN "absent" ELSE (CHOOSE d \in m : TRUE).status

\* The providers records are stored under.
StoredProviders == {"gmail", "slack", "notion"}

\* C11: in every step the status of the record of a (user_id, provider) pair
\* stays, or moves absent -> pending, absent or pending -> active, or to
\* absent; in particular nothing turns an active record back to pending.
C11_LifecycleOrder ==
  [][\A user \in Users, provider \in StoredProviders :
       LET old == StatusOf(integrations, user, provider)
           new == StatusOf(integrations', user, provider)
       IN \/ new = old
          \/ new = "absent"
          \/ new = "active" /\ old \in {"absent", "pending"}
          \/ new = "pending" /\ old = "absent"]_vars

\* A callback completed a record it had read as pending, while a connect
\* for the same pair with force_reauth false was in flight.
C11_Witness ==
  /\ last.op = "callback" /\ last.wrote
  /\ last.existing # NoDoc /\ last.existing.status = "pending"
  /\ StatusOf(integrations, last.existing.user_id, Lower(last.a.appName)) = "active"
  /\ \E r \in Slots :
       /\ req[r].op = "connect" /\ ~req[r].a.force_reauth
       /\ req[r].a.user_id = last.existing.user_id
       /\ Lower(req[r].a.provider) = Lower(last.a.appName)
       /\ req[r].existing # NoDoc /\ req[r].existing.status = "pending"

\* The service's own callback endpoint carrying a session id.
OwnCallbackUrl(session_id) ==
  Url("http", "localhost:8001/api/integrations/callback",
      {<<"session_id", session_id>>})

\* C12: a connect with a redirect_url that has stored its session and made
\* its call of the wrapper has called the platform, and the callback URL
\* handed to the platform is the service's own callback endpoint with the
\* session id as a query parameter, never the caller's redirect_url.
C12_PlatformGetsSessionId ==
  (/\ last.op = "connect" /\ last.a.redirect_url # NoUrl
   /\ last.sid # 0 /\ log[last.sid].stored # NoUrl)
  => /\ last.plat
     /\ last.handed = OwnCallbackUrl(last.sid)

\* C13: the step in which a connect's cleanup returns deletes every OAuth
\* session created more than 30 minutes ago, keeps every younger one (the
\* one the call just stored included), and returns the number it deleted.
C13_CleanupDeletesOld ==
  [][(last'.op = "connect" /\ last'.deleted # -1) =>
       LET old == {s \in oauth_sessions : now - s.created_at > 30}
           young == {s \in oauth_sessions : now - s.created_at < 30}
       IN /\ oauth_sessions' \cap old = {}
          /\ young \subseteq oauth_sessions'
          /\ oauth_sessions' \subseteq oauth_sessions
          /\ last'.deleted = Cardinality(old)]_vars

\* A cleanup deleted an old session and kept the one its own call stored.
C13_Witness ==
  /\ last.op = "connect" /\ last.deleted = 1
  /\ \E s \in oauth_sessions : s.session_id = last.sid

\* The records of the pair a disconnect request names.
RecordsOfPair(a) ==
  {d \in integrations : d.user_id = a.user_id /\ d.provider = Lower(a.provider)}

\* C14: a disconnect that finds no record answers false (404) without
\* calling the platform or deleting; one that finds a record attempts the
\* platform disconnect and deletes the record whatever the platform does; it
\* answers true (200) exactly when it deleted a record, and then no record
\* of the pair exists.
C14_Disconnect ==
  (last.op = "disconnect" /\ last.read) =>
    /\ last.existing = NoDoc =>
         /\ last.resp.status = 404
         /\ ~last.plat /\ ~last.wrote
    /\ last.existing # NoDoc =>
         /\ last.plat
         /\ last.resp.status \in {200, 404} => RecordsOfPair(last.a) = {}
    /\ last.resp.status = 200 <=> last.wrote
    /\ last.resp.status \in {200, 404, 500}

\* A disconnect deleted the record although the platform still holds the
\* connected account (its delete raised, or its list did).
C14_Witness ==
  /\ last.op = "disconnect" /\ last.resp.status = 200
  /\ \E k \in platform :
       k.user = last.existing.composio_entity_id /\ k.slug = "gmail"


(***************************************************************************)
(* Token store (src/token_manager.py).  A token object is the dict that    *)
(* handle_oauth_callback builds: strings, a refresh token that may be      *)
(* None, and a list of scopes.  A file holds the JSON text json.dump       *)
(* wrote; json.load builds the Python value back from it.                  *)
(***************************************************************************)
Tokens(token, refresh_token, scopes) ==
  [token |-> token, refresh_token |-> refresh_token,
   token_uri |-> "https://oauth2.googleapis.com/token",
   client_id |-> "client-id", client_secret |-> "client-secret",
   scopes |-> scopes]

TokenObjects ==
  {Tokens(token, refresh_token, scopes) :
     token \in {"at1", "at2"}, refresh_token \in {None, "rt"},
     scopes \in {<<>>, <<"openid", "drive">>}}

\* json.dump of a str or None, of a list of them, and of a dict whose
\* "scopes" is the list.
JsonScalar(v) == IF v = None THEN [null |-> TRUE] ELSE [string |-> v]

JsonArray(l) == [array |-> [i \in DOMAIN l |-> JsonScalar(l[i])]]

JsonTokens(t) ==
  [object |-> [k \in DOMAIN t |->
                 IF k = "scopes" THEN JsonArray(t[k]) ELSE JsonScalar(t[k])]]

json_dump(token_data) ==
  [object |-> [email |-> JsonScalar(token_data.email),
               tokens |-> JsonTokens(token_data.tokens)]]

\* json.load of the same.
PyScalar(j) == IF "null" \in DOMAIN j THEN None ELSE j.string

PyList(j) == [i \in DOMAIN j.array |-> PyScalar(j.array[i])]

PyTokens(j) ==
  [k \in DOMAIN j.object |->
     IF "array" \in DOMAIN j.object[k] THEN PyList(j.object[k])
     ELSE PyScalar(j.object[k])]

json_load(text) ==
  [email |-> PyScalar(text.object.email), tokens |-> PyTokens(text.object.tokens)]

\* The directory after save_tokens(email, tokens).
save_tokens(email, tokens) ==
  LET token_data == [email |-> email, tokens |-> tokens]
  IN [token_files EXCEPT ![get_token_file(email)] = json_dump(token_data)]

\* What load_tokens(email) returns: None when the file is missing or
\* cannot be parsed.
load_tokens(email) ==
  LET token_file == get_token_file(email)
  IN IF token_files[token_file] = NoFile THEN NoDoc
     ELSE IF "object" \notin DOMAIN token_files[token_file] THEN NoDoc
     ELSE json_load(token_files[token_file]).tokens

\* The directory after delete_tokens(email).
delete_tokens(email) == [token_files EXCEPT ![get_token_file(email)] = NoFile]

SaveTokens(email, tokens) ==
  /\ token_files' = save_tokens(email, tokens)
  /\ token_log' = [token_log EXCEPT ![email] = tokens]
  /\ ret' = [op |-> "save_tokens", email |-> email]
  /\ UNCHANGED <<service_vars, mongo, expired_tokens, tools>>

LoadTokens(email) ==
  /\ ret' = [op |-> "load_tokens", email |-> email, result |-> load_tokens(email)]
  /\ UNCHANGED <<service_vars, mongo, token_files, token_log, expired_tokens, tools>>

DeleteTokens(email) ==
  /\ token_files' = delete_tokens(email)
  /\ token_log' = [token_log EXCEPT ![email] = NoDoc]
  /\ ret' = [op |-> "delete_tokens", email |-> email,
             result |-> token_files[get_token_file(email)] # NoFile]
  /\ UNCHANGED <<service_vars, mongo, expired_tokens, tools>>

(***************************************************************************)
(* SpecTokens: any sequence of save, load and delete, on three emails of   *)
(* which two differ in case only.                                          *)
(***************************************************************************)
ServiceIdle ==
  /\ config = [agent_key |-> "secret", composio_key |-> "ck"]
  /\ integrations = {}
  /\ oauth_sessions = {}
  /\ platform = {}
  /\ now = 0
  /\ nextSession = 1
  /\ req = [r \in Slots |-> Idle]
  /\ last = Idle
  /\ log = [s \in 1..MaxSessions |-> NoLog]

InitTokens == ServiceIdle /\ HelperInit

NextTokens ==
  \/ \E email \in Emails, tokens \in TokenObjects : SaveTokens(email, tokens)
  \/ \E email \in Emails : LoadTokens(email)
  \/ \E email \in Emails : DeleteTokens(email)

SpecTokens == InitTokens /\ [][NextTokens]_vars

NoExpiry == [absent |-> TRUE]

Credentials(tokens) ==
  [token |-> tokens.token, refresh_token |-> tokens.refresh_token,
   token_uri |-> tokens.token_uri, client_id |-> tokens.client_id,
   client_secret |-> tokens.client_secret, scopes |-> tokens.scopes,
   expiry |-> NoExpiry]

\* creds.expired
expired(creds) == creds.expiry # NoExpiry /\ now >= creds.expiry.at

\* What creds.refresh(Request()) can do: raise, or set a new access token
\* and its expiry.
RefreshOutcomes ==
  {[raised |-> TRUE, token |-> None]} \cup
  {[raised |-> FALSE, token |-> t] : t \in {"at2", "at3"}}

\* if creds.expired and creds.refresh_token
needs_refresh(creds) == expired(creds) /\ creds.refresh_token # None

\* get_credentials_for_user(email), the refresh ending as outcome says:
\* whether it raised, the credentials returned, the tokens found, how many
\* refreshes were attempted and the directory afterwards.
get_credentials_for_user(email, outcome) ==
  LET tokens == load_tokens(email)
      base == [raised |-> FALSE, creds |-> NoDoc, found |-> tokens,
               refreshes |-> 0, wrote |-> FALSE, files |-> token_files]
  IN IF tokens = NoDoc THEN [base EXCEPT !.raised = TRUE]
     ELSE LET creds == Credentials(tokens)
          IN IF needs_refresh(creds)
             THEN IF outcome.raised
                  THEN [base EXCEPT !.raised = TRUE, !.refreshes = 1]
                  ELSE LET refreshed == [creds EXCEPT !.token = outcome.token,
                                                     !.expiry = [at |-> now + 60]]
                           updated == [tokens EXCEPT !.token = refreshed.token]
                       IN [base EXCEPT !.creds = refreshed, !.refreshes = 1,
                                       !.wrote = TRUE,
                                       !.files = save_tokens(email, updated)]
             ELSE [base EXCEPT !.creds = creds]

GetCredentials(email, outcome) ==
  LET r == get_credentials_for_user(email, outcome)
  IN /\ token_files' = r.files
     /\ token_log' = IF r.wrote
                     THEN [token_log EXCEPT ![email] =
                             [r.found EXCEPT !.token = r.creds.token]]
                     ELSE token_log
     /\ ret' = [op |-> "get_credentials_for_user", email |-> email,
                raised |-> r.raised, creds |-> r.creds, found |-> r.found,
                refreshes |-> r.refreshes, wrote |-> r.wrote,
                was_expired |-> r.found # NoDoc /\ r.found.token \in expired_tokens]
     /\ UNCHANGED <<service_vars, mongo, expired_tokens, tools>>

\* The lifetime of an access token ends (an hour after it was issued).
TokenExpires(token) ==
  /\ token \notin expired_tokens
  /\ expired_tokens' = expired_tokens \cup {token}
  /\ ret' = NoRet
  /\ UNCHANGED <<service_vars, mongo, token_files, token_log, tools>>

(***************************************************************************)
(* Tool-server config builder (src/mcp_config.py).  A template is the      *)
(* content of mcp_multi.json: missing, not JSON, or an object whose        *)
(* mcpServers maps a server name to its command and arguments.  An         *)
(* argument is the sequence of its pieces, a placeholder being one piece,  *)
(* so that str.replace is the replacement of pieces.                       *)
(***************************************************************************)
FILESYSTEM_BASE_PATH == "C:/Users/98man/Desktop"

FileMissing == [error |-> "FileNotFoundError"]

NotJson == [error |-> "JSONDecodeError"]

ServerEntries ==
  [filesystem |-> {[command |-> "npx",
                    args |-> <<<<"-y">>, <<"server-filesystem">>,
                               <<"{FILESYSTEM_BASE_PATH}">>>>]},
   gdrive |-> {[command |-> "npx",
                args |-> <<<<"-y">>, <<"server-gdrive">>,
                           <<"--access-token=", "{ACCESS_TOKEN}">>>>],
               [command |-> "npx", args |-> <<<<"server-gdrive">>>>]},
   notes |-> {[command |-> "uvx", args |-> <<<<"{ACCESS_TOKEN}">>>>]}]

ServerNames == {"filesystem", "gdrive", "notes"}

Templates ==
  {FileMissing, NotJson} \cup
  UNION {{[mcpServers |-> servers] :
            servers \in {f \in [names -> UNION {ServerEntries[n] : n \in names}] :
                           \A n \in names : f[n] \in ServerEntries[n]}} :
         names \in SUBSET ServerNames}

\* arg.replace(placeholder, value); a value that is not a str raises.
replace(arg, placeholder, value) ==
  [i \in DOMAIN arg |-> IF arg[i] = placeholder THEN value ELSE arg[i]]

\* The comprehension raises TypeError at its first argument.
ReplaceRaises(args, value) == value = None /\ args # << >>

\* {"mcpServers": {}}
NoServers == [mcpServers |-> [n \in {} |-> NoDoc]]

Without(mcp_servers, name) == [n \in DOMAIN mcp_servers \ {name} |-> mcp_servers[n]]

\* A builder that leaves the gdrive entry of the template in place.
keep_gdrive(mcp_servers) == mcp_servers

\* The else branch: del mcp_servers["gdrive"] when it is there.
remove_gdrive(mcp_servers) == Without(mcp_servers, "gdrive")

\* build_mcp_config(credentials, include_gdrive) over the template on disk.
\* credentials is a credentials object or None (NoDoc).
build_mcp_config(template, credentials, include_gdrive) ==
  IF "error" \in DOMAIN template THEN NoServers
  ELSE
    LET loaded == template.mcpServers
        with_fs ==
          IF "filesystem" \in DOMAIN loaded
          THEN [loaded EXCEPT !["filesystem"].args =
                  [i \in DOMAIN @ |->
                     replace(@[i], "{FILESYSTEM_BASE_PATH}", FILESYSTEM_BASE_PATH)]]
          ELSE loaded
        mcp_servers ==
          IF include_gdrive /\ "gdrive" \in DOMAIN with_fs
          THEN IF credentials = NoDoc
                  \/ ReplaceRaises(with_fs["gdrive"].args, credentials.token)
               THEN Without(with_fs, "gdrive")
               ELSE [with_fs EXCEPT !["gdrive"].args =
                       [i \in DOMAIN @ |->
                          replace(@[i], "{ACCESS_TOKEN}", credentials.token)]]
          ELSE remove_gdrive(with_fs)
    IN [mcpServers |-> mcp_servers]

\* The pieces of every argument of a configuration.
Pieces(cfg) ==
  UNION {UNION {{a[j] : j \in DOMAIN a} :
                  a \in {cfg.mcpServers[n].args[i] : i \in DOMAIN cfg.mcpServers[n].args}} :
         n \in DOMAIN cfg.mcpServers}

BuildMcpConfig(template, credentials, include_gdrive) ==
  /\ ret' = [op |-> "build_mcp_config", template |-> template,
             credentials |-> credentials, include_gdrive |-> include_gdrive,
             result |-> build_mcp_config(template, credentials, include_gdrive)]
  /\ UNCHANGED <<service_vars, mongo, token_files, token_log, expired_tokens, tools>>

\* execute_agent_query(email, query) up to the creation of the client: the
\* credentials of the user, then the configuration without Google Drive.
ExecuteAgentQuery(email, template, outcome) ==
  LET r == get_credentials_for_user(email, outcome)
  IN /\ token_files' = r.files
     /\ token_log' = IF r.wrote
                     THEN [token_log EXCEPT ![email] =
                             [r.found EXCEPT !.token = r.creds.token]]
                     ELSE token_log
     /\ ret' = IF r.raised
               THEN [op |-> "execute_agent_query", email |-> email,
                     template |-> template, raised |-> TRUE,
                     credentials |-> NoDoc, mcp_config |-> NoServers]
               ELSE [op |-> "execute_agent_query", email |-> email,
                     template |-> template, raised |-> FALSE,
                     credentials |-> r.creds,
                     mcp_config |-> build_mcp_config(template, r.creds, FALSE)]
     /\ UNCHANGED <<service_vars, mongo, expired_tokens, tools>>

(***************************************************************************)
(* SpecAgent: the Local Sync Helper serving queries: tokens are saved and  *)
(* deleted for two emails, access tokens run out, credentials are fetched, *)
(* and configurations are built from every template, with and without      *)
(* Google Drive, with credentials, with credentials whose token is None,   *)
(* and with no credentials object.                                         *)
(***************************************************************************)
AgentEmails == {"ann@x.com", "bob@x.com"}

AgentTokens == {t \in TokenObjects : t.scopes # << >>}

BuilderCredentials ==
  LET creds == Credentials(Tokens("at1", "rt", <<"openid", "drive">>))
  IN {NoDoc, creds, [creds EXCEPT !.token = None]}

NextAgent ==
  \/ \E email \in AgentEmails, tokens \in AgentTokens : SaveTokens(email, tokens)
  \/ \E email \in AgentEmails : DeleteTokens(email)
  \/ \E token \in {"at1"} : TokenExpires(token)
  \/ \E email \in AgentEmails, outcome \in RefreshOutcomes : GetCredentials(email, outcome)
  \/ \E template \in Templates, credentials \in BuilderCredentials,
        include_gdrive \in BOOLEAN :
        BuildMcpConfig(template, credentials, include_gdrive)
  \/ \E email \in AgentEmails, template \in Templates, outcome \in RefreshOutcomes :
        ExecuteAgentQuery(email, template, outcome)

SpecAgent == InitTokens /\ [][NextAgent]_vars

\* C16: build_mcp_config with include_gdrive=False returns a configuration
\* whose mcpServers has no gdrive key, whatever the template and the
\* credentials; execute_agent_query builds its configuration that way, and
\* the configuration it runs carries the user's access token nowhere.
C16_NoGdriveWhenExcluded ==
  /\ (ret.op = "build_mcp_config" /\ ~ret.include_gdrive)
       => "gdrive" \notin DOMAIN ret.result.mcpServers
  /\ (ret.op = "execute_agent_query" /\ ~ret.raised)
       => /\ "gdrive" \notin DOMAIN ret.mcp_config.mcpServers
          /\ ret.credentials.token \notin Pieces(ret.mcp_config)

\* A query served for a user with stored tokens from a template that has a
\* gdrive entry with the token placeholder: the other servers are kept.
C16_Witness ==
  /\ ret.op = "execute_agent_query"
  /\ ~ret.raised
  /\ "mcpServers" \in DOMAIN ret.template
  /\ DOMAIN ret.template.mcpServers = ServerNames
  /\ "{ACCESS_TOKEN}" \in Pieces([mcpServers |-> [n \in {"gdrive"} |-> ret.template.mcpServers[n]]])
  /\ DOMAIN ret.mcp_config.mcpServers = {"filesystem", "notes"}
  /\ FILESYSTEM_BASE_PATH \in Pieces(ret.mcp_config)

(***************************************************************************)
(* Tool-Sync job (src/mcp_service/scripts/sync_tools_to_db.py).  The       *)
(* registry is what tools_config.py holds when the job runs: the enabled   *)
(* tools with their auth config ids, and the metadata of some of them.     *)
(***************************************************************************)
TOOL_METADATA ==
  [gmail |-> [category |-> "email",
              description |-> "Send, read, and manage Gmail emails",
              enabled |-> TRUE],
   slack |-> [category |-> "communication",
              description |-> "Send messages and interact with Slack workspaces",
              enabled |-> TRUE]]

RegistryApps == {"gmail", "slack"}

\* The registries of successive deployments: a part of ENABLED_TOOLS, with
\* all its metadata, or with slack switched off or without metadata.
Registries ==
  {[enabled_tools |-> [app \in apps |-> ENABLED_TOOLS[app]], metadata |-> m] :
     apps \in SUBSET RegistryApps,
     m \in {TOOL_METADATA,
            [TOOL_METADATA EXCEPT !.slack.enabled = FALSE],
            [app \in {"gmail"} |-> TOOL_METADATA[app]]}}

\* get_tool_metadata(app_name): {} when there is none.
get_tool_metadata(registry, app_name) ==
  IF Lower(app_name) \in DOMAIN registry.metadata
  THEN registry.metadata[Lower(app_name)] ELSE [n \in {} |-> NoDoc]

\* metadata.get(key, default)
Get(metadata, key, default) ==
  IF key \in DOMAIN metadata THEN metadata[key] ELSE default

\* find_one({"app_name": app_name})
find_tool(coll, app_name) ==
  IF \E d \in coll : d.app_name = app_name
  THEN CHOOSE d \in coll : d.app_name = app_name ELSE NoDoc

\* An update that stamps the document anew.
fresh_created_at(existing, utcnow) == utcnow

\* existing.get("created_at", datetime.utcnow())
kept_created_at(existing, utcnow) == Get(existing, "created_at", utcnow)

\* The document written for an enabled tool: $set over the existing one, or
\* the inserted one.
SyncedDoc(coll, registry, app_name, utcnow) ==
  LET metadata == get_tool_metadata(registry, app_name)
      existing == find_tool(coll, app_name)
  IN [app_name |-> app_name,
      auth_config_id |-> registry.enabled_tools[app_name],
      enabled |-> Get(metadata, "enabled", TRUE),
      category |-> Get(metadata, "category", "uncategorized"),
      description |-> Get(metadata, "description", ""),
      updated_at |-> utcnow,
      created_at |-> IF existing # NoDoc THEN kept_created_at(existing, utcnow)
                     ELSE utcnow]

\* The collection after sync_tools_to_mongodb(): every enabled tool is
\* updated or inserted, then every document of another app is disabled.
sync_tools_to_mongodb(coll, registry, utcnow) ==
  LET enabled_tools == DOMAIN registry.enabled_tools
      synced == {d \in coll : d.app_name \notin enabled_tools}
                \cup {SyncedDoc(coll, registry, app_name, utcnow) :
                        app_name \in enabled_tools}
  IN {IF d.app_name \notin enabled_tools
      THEN [d EXCEPT !.enabled = FALSE, !.updated_at = utcnow]
      ELSE d : d \in synced}

\* One run of the job; connected is whether the ping went through.  The
\* run is the second in a row when the last helper operation was a
\* completed run with the same registry.
SyncTools(registry, connected) ==
  /\ tools' = IF connected THEN sync_tools_to_mongodb(tools, registry, now) ELSE tools
  /\ ret' = [op |-> "sync_tools_to_mongodb", registry |-> registry,
             raised |-> ~connected, before |-> tools,
             second |-> /\ ret.op = "sync_tools_to_mongodb"
                        /\ ~ret.raised
                        /\ ret.registry = registry]
  /\ UNCHANGED <<service_vars, mongo, token_files, token_log, expired_tokens>>

(***************************************************************************)
(* SpecSync: runs of the job, under registries that change between runs,   *)
(* as time passes.                                                         *)
(***************************************************************************)
NextSync ==
  \/ \E registry \in Registries, connected \in BOOLEAN : SyncTools(registry, connected)
  \/ Tick

SpecSync == InitTokens /\ [][NextSync]_vars

EnabledOf(coll) == {<<d.app_name, d.enabled>> : d \in coll}

\* C17: the second of two runs in a row with the same registry leaves the
\* number of documents and every enabled flag as they were; no run deletes
\* a document, a document whose app is not in the registry is kept with
\* enabled false, and a document that was there keeps its created_at.
C17_SyncIdempotent ==
  (ret.op = "sync_tools_to_mongodb" /\ ~ret.raised) =>
     /\ ret.second => /\ Cardinality(tools) = Cardinality(ret.before)
                      /\ EnabledOf(tools) = EnabledOf(ret.before)
     /\ \A b \in ret.before :
          \E d \in tools : /\ d.app_name = b.app_name
                           /\ d.created_at = b.created_at
                           /\ b.app_name \notin DOMAIN ret.registry.enabled_tools
                                => ~d.enabled

\* A second run, later than the first, over a collection holding an
\* enabled tool created earlier and a tool that left the registry.
C17_Witness ==
  /\ ret.op = "sync_tools_to_mongodb"
  /\ ~ret.raised
  /\ ret.second
  /\ \E d \in tools : d.enabled /\ d.created_at < d.updated_at
  /\ \E d \in tools : d.app_name \notin DOMAIN ret.registry.enabled_tools

(***************************************************************************)
(* Document-store access layer (src/mcp_service/db/mongodb.py).  A call    *)
(* runs without suspension up to its first await on the driver, the ping   *)
(* of connect_to_mongodb; a call that finds the handles set returns        *)
(* without suspending at all.  A client is the number of its construction. *)
(***************************************************************************)
MONGODB_DB_NAME == "mcp_integrations"

MongoOps == {"connect_to_mongodb", "get_database", "get_collection"}

MONGODB_URI == "mongodb://localhost:27017"

\* AsyncIOMotorClient(MONGODB_URI), the n-th one constructed.
ClientNo(n) == [uri |-> MONGODB_URI, no |-> n]

\* _client[MONGODB_DB_NAME]
DatabaseOf(client) == [client |-> client, name |-> MONGODB_DB_NAME]

\* What a call hands to its caller once _database is read.
Handle(op, database) ==
  IF op = "get_collection" /\ database # NoDoc
  THEN [database |-> database, collection |-> "integrations"]
  ELSE database

\* A check that sends every call on to create a client.
always_absent(handle) == TRUE

\* "is None", of _client in connect_to_mongodb and of _database in
\* get_database.
is_none(handle) == handle = NoDoc

\* A call starts: get_collection calls get_database, which calls
\* connect_to_mongodb when _database is None, which creates the client and
\* the database handle when _client is None and then awaits the ping.
MongoCall(c, op) ==
  /\ ~mongo.closed
  /\ mongo.pc[c] = "idle"
  /\ LET connects == op = "connect_to_mongodb" \/ is_none(mongo.database)
         creates == connects /\ is_none(mongo.client)
         client == ClientNo(mongo.created + 1)
     IN IF creates
        THEN /\ mongo' = [mongo EXCEPT !.client = client,
                                       !.database = DatabaseOf(client),
                                       !.created = client.no, !.pc[c] = op]
             /\ ret' = NoRet
        ELSE /\ mongo' = mongo
             /\ ret' = [op |-> op, caller |-> c, raised |-> FALSE,
                        closed |-> mongo.closed,
                        result |-> Handle(op, mongo.database)]
  /\ UNCHANGED <<service_vars, token_files, token_log, expired_tokens, tools>>

\* The ping of a caller ends: the exception is raised to the caller, or the
\* call returns what _database holds by then.
MongoPingDone(c, ok) ==
  /\ mongo.pc[c] # "idle"
  /\ mongo' = [mongo EXCEPT !.pc[c] = "idle"]
  /\ ret' = [op |-> mongo.pc[c], caller |-> c, raised |-> ~ok,
             closed |-> mongo.closed,
             result |-> IF ok THEN Handle(mongo.pc[c], mongo.database) ELSE NoDoc]
  /\ UNCHANGED <<service_vars, token_files, token_log, expired_tokens, tools>>

\* close_connection(), at shutdown.
MongoClose ==
  /\ ~mongo.closed
  /\ mongo' = IF mongo.client # NoDoc
              THEN [mongo EXCEPT !.client = NoDoc, !.database = NoDoc, !.closed = TRUE]
              ELSE [mongo EXCEPT !.closed = TRUE]
  /\ ret' = NoRet
  /\ UNCHANGED <<service_vars, token_files, token_log, expired_tokens, tools>>

(***************************************************************************)
(* SpecMongo: three callers of the access layer in any interleaving, pings *)
(* that succeed or fail, and the close at shutdown.                        *)
(***************************************************************************)
NextMongo ==
  \/ \E c \in Callers, op \in MongoOps : MongoCall(c, op)
  \/ \E c \in Callers, ok \in BOOLEAN : MongoPingDone(c, ok)
  \/ MongoClose

SpecMongo == InitTokens /\ [][NextMongo]_vars

\* C18: until close_connection, whatever the interleaving of the calls, one
\* client at most has been created, and every call that returns hands its
\* caller the one stored database handle (or a collection of it).
C18_HandlesCreatedOnce ==
  /\ mongo.created <= 1
  /\ (ret.op \in MongoOps /\ ~ret.raised /\ ~ret.closed) =>
        /\ mongo.database = DatabaseOf(ClientNo(1))
        /\ ret.result = Handle(ret.op, mongo.database)

\* A call that returned the handle without waiting while the ping of the
\* call that created it is still awaited.
C18_Witness ==
  /\ ret.op = "get_database"
  /\ ~ret.raised
  /\ ret.result = DatabaseOf(ClientNo(1))
  /\ \E c \in Callers : mongo.pc[c] = "connect_to_mongodb"

\* C19: get_credentials_for_user attempts one refresh when the stored
\* access token has run out and a refresh token is stored, and the stored
\* record then holds the refreshed access token and its other fields as
\* before; it attempts none and writes nothing when the token has not run
\* out or there is no refresh token; with no tokens stored it raises and
\* writes nothing.
C19_RefreshWhenExpired ==
  ret.op = "get_credentials_for_user" =>
    IF ret.found = NoDoc
    THEN ret.raised /\ ~ret.wrote /\ ret.refreshes = 0
    ELSE IF ret.was_expired /\ ret.found.refresh_token # None
    THEN /\ ret.refreshes = 1
         /\ ~ret.raised =>
              /\ ret.creds.token # ret.found.token
              /\ load_tokens(ret.email) = [ret.found EXCEPT !.token = ret.creds.token]
    ELSE /\ ret.refreshes = 0
         /\ ~ret.wrote
         /\ load_tokens(ret.email) = ret.found

(***************************************************************************)
(* The platform wrapper called directly (ComposioService): each method as  *)
(* one synchronous call.  listed, deleted and ok are whether the           *)
(* platform's connected_accounts.list, connected_accounts.delete and the   *)
(* method's own platform call answered without raising.                    *)
(***************************************************************************)
ClientError == "Composio client not initialized. Set COMPOSIO_API_KEY."

UnsupportedAppError == "Unsupported app: {app_name}. Supported: {AUTH_CONFIG_MAP}"

WrapperOps == {"initiate_connection", "get_connection", "get_tools",
               "execute_action", "disconnect", "get_available_apps"}

\* The methods that use self.client.
LiveClientOps == WrapperOps \ {"get_available_apps"}

Returned(value) == [raised |-> FALSE, error |-> None, value |-> value]

Raised(error) == [raised |-> TRUE, error |-> error, value |-> NoDoc]

get_available_apps == Returned(DOMAIN AUTH_CONFIG_MAP)

\* get_tools: the tools of the platform, [] when anything raises.
get_tools(ok) ==
  IF ClientReady /\ ok THEN Returned(<<"tool">>) ELSE Returned(<< >>)

\* execute_action called on the wrapper: the client property raises inside
\* the try when there is no client.
composio_execute_action(outcome) ==
  IF ClientReady THEN Returned(execute_action(outcome))
  ELSE Returned(ExecuteResponse(FALSE, ClientError))

\* A disconnect that leaves the platform's account alone.
disconnect_skipped(k, deleted) == [ret |-> Returned(FALSE), platform |-> platform]

\* disconnect of the account k that get_connection returned (NoDoc: none):
\* what it returns and the accounts the platform holds afterwards.
composio_disconnect(k, deleted) ==
  IF k # NoDoc /\ deleted
  THEN [ret |-> Returned(TRUE), platform |-> platform \ {k}]
  ELSE [ret |-> Returned(FALSE), platform |-> platform]

\* initiate_connection with the account k that get_connection returned;
\* initiated is whether connected_accounts.initiate was called.
composio_initiate_connection(k, app_name, force_reauth, deleted, ok) ==
  IF k # NoDoc /\ ~force_reauth
  THEN [ret |-> Returned([auth_url |-> None, connection_id |-> k.id,
                          status |-> "already_connected"]),
        platform |-> platform, initiated |-> FALSE]
  ELSE LET after == composio_disconnect(k, deleted).platform
       IN [platform |-> after,
           initiated |-> Lower(app_name) \in DOMAIN AUTH_CONFIG_MAP /\ ClientReady,
           ret |-> IF Lower(app_name) \notin DOMAIN AUTH_CONFIG_MAP
                     THEN Raised(UnsupportedAppError)
                   ELSE IF ~ClientReady THEN Raised(ClientError)
                   ELSE IF ~ok THEN Raised("ComposioError")
                   ELSE Returned([auth_url |-> "https://platform/auth",
                                  connection_id |-> "c7", status |-> "pending"])]

WrapperCall(op, user_id, app_name, force_reauth, listed, deleted, ok, outcome) ==
  /\ \E k \in get_connection(EntityId(user_id), app_name, listed) :
       LET r == CASE op = "initiate_connection" ->
                       composio_initiate_connection(k, app_name, force_reauth, deleted, ok)
                  [] op = "disconnect" -> composio_disconnect(k, deleted)
                  [] op = "get_connection" -> [ret |-> Returned(k), platform |-> platform]
                  [] op = "get_tools" -> [ret |-> get_tools(ok), platform |-> platform]
                  [] op = "execute_action" ->
                       [ret |-> composio_execute_action(outcome), platform |-> platform]
                  [] op = "get_available_apps" ->
                       [ret |-> get_available_apps, platform |-> platform]
       IN /\ platform' = r.platform
          /\ ret' = [op |-> op, user_id |-> user_id, app_name |-> app_name,
                     force_reauth |-> force_reauth, found |-> k,
                     listed |-> listed, deleted |-> deleted, after |-> r.platform,
                     initiated |-> IF op = "initiate_connection" THEN r.initiated
                                   ELSE FALSE,
                     raised |-> r.ret.raised,
                     error |-> r.ret.error, value |-> r.ret.value]
  /\ last' = Idle
  /\ UNCHANGED <<config, integrations, oauth_sessions, now, nextSession, req, log,
                 mongo, token_files, token_log, expired_tokens, tools>>

(***************************************************************************)
(* SpecWrapper: the wrapper's methods called with and without a platform   *)
(* API key, starting from every set of connected accounts.                 *)
(***************************************************************************)
InitWrapper ==
  /\ Init
  /\ config.agent_key = "secret"
  /\ integrations = {}

\* The calls made: each method with what it takes and the outcomes of the
\* platform calls it makes; what a method does not use is held fixed.
WrapperInputs ==
  LET Call(op, user_id, app_name, force_reauth, listed, deleted, ok, outcome) ==
        [op |-> op, user_id |-> user_id, app_name |-> app_name,
         force_reauth |-> force_reauth, listed |-> listed, deleted |-> deleted,
         ok |-> ok, outcome |-> outcome]
      apps == {"gmail", "SLACK", "notion", "whatsapp"}
      returns == CHOOSE o \in ExecuteOutcomes : o.raised = "no"
  IN {Call("initiate_connection", u, a, f, l, d, k, returns) :
        u \in Users, a \in apps, f \in BOOLEAN, l \in BOOLEAN, d \in BOOLEAN,
        k \in BOOLEAN}
     \cup {Call("disconnect", u, a, FALSE, l, d, TRUE, returns) :
             u \in Users, a \in apps, l \in BOOLEAN, d \in BOOLEAN}
     \cup {Call("get_connection", u, a, FALSE, l, TRUE, TRUE, returns) :
             u \in Users, a \in apps, l \in BOOLEAN}
     \cup {Call("get_tools", "u1", "gmail", FALSE, TRUE, TRUE, k, returns) :
             k \in BOOLEAN}
     \cup {Call("execute_action", "u1", "gmail", FALSE, TRUE, TRUE, TRUE, o) :
             o \in ExecuteOutcomes}
     \cup {Call("get_available_apps", "u1", "gmail", FALSE, TRUE, TRUE, TRUE, returns)}

NextWrapper ==
  \E i \in WrapperInputs :
     WrapperCall(i.op, i.user_id, i.app_name, i.force_reauth, i.listed, i.deleted,
                 i.ok, i.outcome)

SpecWrapper == InitWrapper /\ [][NextWrapper]_vars

\* C20: without a platform API key the wrapper is constructed all the same,
\* each of initiate_connection, get_connection, get_tools, execute_action
\* and disconnect raises the configuration error, and get_available_apps
\* returns the apps.
C20_DegradedModeRaises ==
  (config.composio_key = "" /\ ret.op \in WrapperOps) =>
     IF ret.op \in LiveClientOps
     THEN ret.raised /\ ret.error = ClientError
     ELSE ~ret.raised /\ ret.value = DOMAIN AUTH_CONFIG_MAP

(***************************************************************************)
(* GET /api/tools/actions/{provider} (api/tools.py, list_provider_actions).*)
(* The handler has no await: it is one step.  The catalog is               *)
(* PROVIDER_ACTIONS of actions_config.py, here with two actions for each   *)
(* of two providers.                                                       *)
(***************************************************************************)
PROVIDER_ACTIONS ==
  [gmail |-> <<[name |-> "GMAIL_SEND_EMAIL", description |-> "Send Email"],
               [name |-> "GMAIL_FETCH_EMAILS", description |-> "Fetch emails"]>>,
   slack |-> <<[name |-> "SLACK_SEND_MESSAGE", description |-> "Send message"],
               [name |-> "SLACK_LIST_CHANNELS", description |-> "List channels"]>>]

is_provider_supported(provider) == Lower(provider) \in DOMAIN PROVIDER_ACTIONS

get_provider_actions(provider) == PROVIDER_ACTIONS[Lower(provider)]

\* What requests.get on the platform's actions endpoint does: it raises a
\* RequestException (unreachable, timeout), or answers with a status code
\* and, for 200, the items that carry a schema.
SchemaAnswers ==
  {[raised |-> TRUE, status_code |-> 0, items |-> {}]}
  \cup {[raised |-> FALSE, status_code |-> 200, items |-> items] :
          items \in {{}, {"GMAIL_SEND_EMAIL"}, {"GMAIL_SEND_EMAIL", "SLACK_SEND_MESSAGE"}}}
  \cup {[raised |-> FALSE, status_code |-> c, items |-> {}] : c \in {401, 500}}

ActionsBody(provider_lower, actions, schema_included) ==
  [provider |-> provider_lower, actions |-> actions,
   schema_included |-> schema_included, total_actions |-> Len(actions)]

\* An action of the catalog with the schema the platform listed for it.
Enriched(action, items) ==
  [name |-> action.name, description |-> action.description,
   request_schema |-> action.name \in items]

\* What the handler returns when the platform answered with a status other
\* than 200: no branch returns, the function ends and returns None.
non_200_body(provider_lower, actions) == NoDoc

\* The body the handler returns for a provider of the catalog; NoDoc is
\* None, which FastAPI sends as 200 with the JSON body null.
list_provider_actions(provider, include_schema, answer) ==
  LET provider_lower == Lower(provider)
      actions == get_provider_actions(provider_lower)
  IN IF ~include_schema THEN ActionsBody(provider_lower, actions, FALSE)
     ELSE IF ~ClientReady THEN ActionsBody(provider_lower, actions, FALSE)
     ELSE IF answer.raised THEN ActionsBody(provider_lower, actions, FALSE)
     ELSE IF answer.status_code = 200
       THEN ActionsBody(provider_lower,
                        [i \in DOMAIN actions |-> Enriched(actions[i], answer.items)],
                        TRUE)
     ELSE non_200_body(provider_lower, actions)

ListProviderActions(key, provider, include_schema, answer) ==
  /\ LET adm == Admit(key, TRUE)
         status == IF adm # NoResp THEN adm.status
                   ELSE IF ~is_provider_supported(provider) THEN 404 ELSE 200
     IN ret' = [op |-> "list_provider_actions", provider |-> provider,
                include_schema |-> include_schema, answer |-> answer,
                admitted |-> adm = NoResp, status |-> status,
                body |-> IF status = 200
                         THEN list_provider_actions(provider, include_schema, answer)
                         ELSE NoDoc]
  /\ last' = Idle
  /\ UNCHANGED <<config, integrations, oauth_sessions, platform, now, nextSession,
                 req, log, mongo, token_files, token_log, expired_tokens, tools>>

(***************************************************************************)
(* SpecActions: the actions of a provider are listed with every key, for   *)
(* providers in and out of the catalog, with and without schemas, whatever *)
(* the platform's endpoint does, with and without a platform API key.      *)
(***************************************************************************)
InitActions ==
  /\ Init
  /\ integrations = {}
  /\ platform = {}

NextActions ==
  \E key \in Keys, provider \in ProviderInputs, include_schema \in BOOLEAN,
     answer \in SchemaAnswers :
     ListProviderActions(key, provider, include_schema, answer)

SpecActions == InitActions /\ [][NextActions]_vars

ActionNames(actions) == {actions[i].name : i \in DOMAIN actions}

\* C21: for a provider of the catalog an authenticated request is answered
\* 200 with a body that lists exactly the actions of the catalog, with
\* total_actions their number, whatever the platform's schema endpoint
\* does; schema_included is true only when schemas were asked for and
\* fetched.
C21_CatalogAlwaysListed ==
  (ret.op = "list_provider_actions" /\ ret.admitted
     /\ is_provider_supported(ret.provider)) =>
       /\ ret.status = 200
       /\ ret.body # NoDoc
       /\ ActionNames(ret.body.actions)
            = ActionNames(get_provider_actions(ret.provider))
       /\ ret.body.total_actions = Len(get_provider_actions(ret.provider))
       /\ ret.body.schema_included =>
            /\ ret.include_schema
            /\ ~ret.answer.raised /\ ret.answer.status_code = 200
       /\ ~ret.include_schema => ~ret.body.schema_included

(***************************************************************************)
(* Concurrent connects, and what a connect leaves behind.                  *)
(***************************************************************************)
\* A connect without redirect_url that read no record of its pair: every
\* answer it gets comes after the call of the wrapper.
ReachedWrapper(rec) ==
  /\ rec.op = "connect" /\ rec.read
  /\ rec.existing = NoDoc /\ rec.a.redirect_url = NoUrl

\* Another connect for the same pair is in flight, having read no record
\* either.
RacingConnect(rec) ==
  \E r \in Slots :
    /\ req[r].op = "connect" /\ req[r].read /\ req[r].existing = NoDoc
    /\ req[r].a.user_id = rec.a.user_id
    /\ Lower(req[r].a.provider) = Lower(rec.a.provider)

\* C22: of two concurrent connects of one pair that both found no record,
\* each initiates a connection on the platform; the one whose insert the
\* unique index lets through returns the auth_url (200), the other fails
\* with 500 "Connection failed", and one pending record of the pair is in
\* the store when either has answered.
C22_RaceLeavesOnePending ==
  (ReachedWrapper(last) /\ RacingConnect(last)) =>
     /\ last.plat
     /\ last.resp.status \in {200, 500}
     /\ last.resp.status = 500 => last.resp.detail = ConnectionFailedDetail
     /\ \E d \in RecordsOfPair(last.a) : d.status = "pending"
     /\ Cardinality(RecordsOfPair(last.a)) = 1

\* The connected accounts of an entity and app that the platform holds.
ConnectionsOn(accounts, user_id, app_name) ==
  {k \in accounts : k.user = EntityId(user_id) /\ ConnSlug(k, app_name) = Lower(app_name)}

UserToolsDocs ==
  {Doc(1, "u1", "gmail", "c1", st, None) : st \in Statuses}
  \cup {Doc(2, "u1", "slack", "c4", st, None) : st \in Statuses}
  \cup {Doc(3, "u2", "gmail", "c9", st, None) : st \in Statuses}

\* get_user_tools: the providers of the user's active records; without any
\* it returns [] before the wrapper is called, and otherwise whatever the
\* wrapper's get_tools returns for user_<user_id> and those providers.
\* db_ok: the read of the collection did not raise.
get_user_tools(user_id, db_ok, ok) ==
  LET active_providers == ActiveProviders(user_id)
      base == [op |-> "get_user_tools", user_id |-> user_id, raised |-> FALSE,
               called |-> FALSE, plat |-> FALSE, entity_id |-> None, apps |-> {},
               value |-> << >>]
  IN IF ~db_ok THEN [base EXCEPT !.raised = TRUE]
     ELSE IF active_providers = {} THEN base
     ELSE [base EXCEPT !.called = TRUE, !.plat = ClientReady,
                       !.entity_id = EntityId(user_id), !.apps = active_providers,
                       !.value = get_tools(ok).value]

GetUserTools(user_id, db_ok, ok) ==
  /\ ret' = get_user_tools(user_id, db_ok, ok)
  /\ last' = Idle
  /\ UNCHANGED <<config, integrations, oauth_sessions, platform, now, nextSession,
                 req, log, mongo, token_files, token_log, expired_tokens, tools>>

NextUserTools ==
  \E user_id \in Users, db_ok, ok \in BOOLEAN : GetUserTools(user_id, db_ok, ok)

InitUserTools ==
  /\ config \in {c \in Configs : c.agent_key = "secret"}
  /\ integrations \in {c \in SUBSET UserToolsDocs : UniquePairs(c)}
  /\ oauth_sessions = {}
  /\ platform = {}
  /\ now = 0
  /\ nextSession = 1
  /\ req = [r \in Slots |-> Idle]
  /\ last = Idle
  /\ log = [s \in 1..MaxSessions |-> NoLog]
  /\ HelperInit

SpecUserTools == InitUserTools /\ [][NextUserTools]_vars

\* C24: get_user_tools hands the wrapper exactly the providers of the
\* user's own records whose status is active, under the entity user_<id>;
\* when there is none it returns the empty list and neither the wrapper nor
\* the platform is called; the platform is called only with those providers.
C24_OnlyActiveProviders ==
  (ret.op = "get_user_tools" /\ ~ret.raised) =>
    LET mine == {d \in integrations : d.user_id = ret.user_id /\ d.status = "active"}
    IN /\ ret.apps = {d.provider : d \in mine}
       /\ \A app \in ret.apps :
            \E d \in integrations :
               d.user_id = ret.user_id /\ d.provider = app
               /\ d.status \notin {"pending", "error", "expired", "revoked"}
       /\ ret.called <=> mine # {}
       /\ ret.plat => ret.called
       /\ ret.called => ret.entity_id = EntityId(ret.user_id)
       /\ mine = {} => ret.value = << >>

\* A user with an active and a pending record, beside another user's active
\* record: the platform was asked for the one active provider.
C24_Witness ==
  /\ ret.op = "get_user_tools" /\ ret.user_id = "u1" /\ ret.plat
  /\ ret.apps = {"slack"}
  /\ \E d \in integrations : d.user_id = "u1" /\ d.provider = "gmail" /\ d.status = "pending"
  /\ \E d \in integrations : d.user_id = "u2" /\ d.status = "active"

\* C25: every member of SUPPORTED_INTEGRATIONS has an auth-configuration id
\* in the wrapper's AUTH_CONFIG_MAP: no initiate_connection of the wrapper
\* for a supported provider has raised the unsupported-app error.
C25_SupportedResolves ==
  (ret.op = "initiate_connection" /\ Lower(ret.app_name) \in SUPPORTED_INTEGRATIONS)
     => /\ Lower(ret.app_name) \in DOMAIN AUTH_CONFIG_MAP
        /\ ~(ret.raised /\ ret.error = UnsupportedAppError)

(***************************************************************************)
(* What a connect does to the integrations collection.                     *)
(***************************************************************************)
\* The step is one of the connect in slot r.
ConnectStep(r) ==
  /\ req'[r] # req[r]
  /\ req[r].op = "connect" \/ req'[r].op = "connect"

\* C26 as stated: initiate_connection is all-or-nothing on the integrations
\* collection: no step of a call that raises creates, modifies or deletes an
\* integration record, force_reauth with an existing record included.
C26_RaiseLeavesRecords ==
  [][\A r \in Slots : ConnectStep(r) => integrations' = integrations]_vars

\* C26, amended: no step of an initiate_connection that raises creates or
\* modifies an integration record, and the only record it deletes is the
\* one it found (the document of that _id), when force_reauth is true.
C26_RaiseOnlyDeletesExisting ==
  [][\A r \in Slots :
       ConnectStep(r) =>
         \/ integrations' = integrations
         \/ /\ req[r].a.force_reauth /\ req[r].existing # NoDoc
            /\ integrations' = {d \in integrations : d.id # req[r].existing.id}]_vars

\* A forced connect without redirect_url that found a record, deleted it and
\* was answered 500 (its cleanup failed, so the delete is all it wrote);
\* another user's record is in the store.
C26_Witness ==
  /\ last.op = "connect" /\ last.a.force_reauth /\ last.a.redirect_url = NoUrl
  /\ last.wrote /\ last.deleted = -1
  /\ last.resp = Resp(500, ConnectionFailedDetail)
  /\ RecordsOfPair(last.a) = {}
  /\ integrations # {}

(***************************************************************************)
(* What a callback does to the integrations collection.                    *)
(***************************************************************************)
\* The step is one of the callback in slot r.
CallbackStep(r) ==
  /\ req'[r] # req[r]
  /\ req[r].op = "callback" \/ req'[r].op = "callback"

\* C28: no step of a callback creates an integration record or lets the
\* number of records grow, and the only record a callback changes is one
\* whose composio_connection_id is the callback's connectedAccountId; with
\* no or an unknown connectedAccountId it changes none.
C28_CallbackChangesOnlyMatched ==
  [][\A r \in Slots :
       CallbackStep(r) =>
         LET a == IF req[r].op = "callback" THEN req[r].a ELSE req'[r].a
             Matched(d) == /\ a.connectedAccountId # None
                           /\ d.composio_connection_id = a.connectedAccountId
         IN /\ Cardinality(integrations') <= Cardinality(integrations)
            /\ \A d \in integrations : ~Matched(d) => d \in integrations'
            /\ \A d \in integrations' \ integrations :
                 \E e \in integrations : e.id = d.id /\ Matched(e)]_vars

\* A callback that carried a session_id and whose lookup of it returned.
LookedUpSession ==
  last.op = "callback" /\ last.a.session_id # 0 /\ last.read

\* C29: a callback that carries a session_id consumes the session on every
\* branch (error, success, fallback): when it has answered, no OAuthSession
\* of that id exists, and a callback that comes after another lookup of the
\* same id gets no session and redirects to the default base URL.
C29_SessionConsumedOnEveryBranch ==
  LookedUpSession =>
    /\ \A s \in oauth_sessions : s.session_id # last.a.session_id
    /\ ~last.first =>
         /\ last.session = NoDoc
         /\ last.resp.status = RedirectStatus =>
              /\ SameTarget(last.resp.location, OAUTH_REDIRECT_BASE)
              /\ last.resp.location.scheme = OAUTH_REDIRECT_BASE.scheme

\* The success callback of a retry: the session it names was stored and was
\* returned to an earlier callback; this one is redirected to the default.
C29_Witness ==
  /\ LookedUpSession /\ ~last.first
  /\ last.a.session_id \in DOMAIN log
  /\ log[last.a.session_id].stored # NoUrl /\ log[last.a.session_id].hits = 1
  /\ last.a.status = "success" /\ last.a.appName = "gmail" /\ ~Truthy(last.a.error)
  /\ last.resp.status = RedirectStatus
  /\ SameTarget(last.resp.location, OAUTH_REDIRECT_BASE)

(***************************************************************************)
(* SpecLookup: the platform's connection lookup answering or failing,      *)
(* under IntegrationService.execute_tool and under the wrapper's           *)
(* get_connection and initiate_connection.                                 *)
(***************************************************************************)
\* IntegrationService.execute_tool from its read of the record on: the
\* wrapper's get_connection, then execute_action or the not-connected
\* failure.  listed is whether connected_accounts.list answered.
ExecuteToolCall(user_id, action, listed, outcome) ==
  /\ \E integration \in get_integration(user_id, ActionProvider(action)) :
       LET entity == IF integration # NoDoc THEN integration.composio_entity_id
                     ELSE EntityId(user_id)
       IN \E k \in get_connection(entity, ActionProvider(action), listed) :
            LET result == execute_tool(k, outcome)
            IN ret' = [op |-> "execute_tool", user_id |-> user_id,
                       app_name |-> ActionProvider(action), listed |-> listed,
                       found |-> k, executed |-> result.executed,
                       raised |-> FALSE, error |-> None, value |-> result.resp]
  /\ last' = Idle
  /\ UNCHANGED <<config, integrations, oauth_sessions, platform, now, nextSession,
                 req, log, mongo, token_files, token_log, expired_tokens, tools>>

NextLookup ==
  \/ \E i \in {j \in WrapperInputs : j.op \in {"get_connection", "initiate_connection"}} :
        WrapperCall(i.op, i.user_id, i.app_name, i.force_reauth, i.listed, i.deleted,
                    i.ok, i.outcome)
  \/ \E user_id \in Users, action \in Actions, listed \in BOOLEAN,
          outcome \in ExecuteOutcomes :
        ExecuteToolCall(user_id, action, listed, outcome)

SpecLookup == InitWrapper /\ [][NextLookup]_vars

\* C30: when the platform's list of the entity's connections raises,
\* get_connection returns None as for a user who is not connected;
\* execute_tool then returns the not-connected failure without calling
\* execute_action, and the wrapper's initiate_connection finds nothing and
\* goes on to the initiate call (for a provider with an auth configuration)
\* instead of failing on the lookup.
C30_LookupFailureIsNoConnection ==
  (ret.op \in {"get_connection", "execute_tool", "initiate_connection"} /\ ~ret.listed) =>
    /\ ret.found = NoDoc
    /\ ret.op = "get_connection" => ~ret.raised /\ ret.value = NoDoc
    /\ ret.op = "execute_tool" =>
         /\ ~ret.executed
         /\ ret.value.success = FALSE
         /\ ret.value.error = "User does not have it connected"
    /\ (ret.op = "initiate_connection" /\ ClientReady
        /\ Lower(ret.app_name) \in DOMAIN AUTH_CONFIG_MAP) =>
         /\ ret.initiated
         /\ ~ret.raised => ret.value.status = "pending" /\ ret.value.auth_url # None
         /\ ret.raised => ret.error = "ComposioError"

\* The lookup failed while the platform held a connection of the entity and
\* app: execute_tool answered not connected without executing.
C30_Witness ==
  /\ ret.op = "execute_tool" /\ ~ret.listed /\ ClientReady
  /\ ConnectionsOn(platform, ret.user_id, ret.app_name) # {}
  /\ ~ret.executed
  /\ ret.value.error = "User does not have it connected"
=============================================================================
